---- MODULE Spec2Model ----
(***************************************************************************)
(* A model of the midi2shawzin conversion core (src/midi2shawzin).         *)
(*                                                                         *)
(* Text is a sequence of one-character strings, so that len(), slicing,    *)
(* str.isdigit(), str.isalnum(), strip(), split() and join() are modelled  *)
(* by what they do.  Times are integers counting 1/64 s: every time the    *)
(* model uses is a binary fraction, so the float arithmetic of the source  *)
(* (division by seconds_per_tick = 0.0625 = 4/64 s, round(), sums) is      *)
(* exact on them.                                                          *)
(***************************************************************************)
EXTENDS Integers, Sequences, FiniteSets, TLC

\* ------------------------------------------------------------------------
\* Python built-ins used by the source
\* ------------------------------------------------------------------------

Max(a, b) == IF a >= b THEN a ELSE b

Min(a, b) == IF a <= b THEN a ELSE b

Abs(a) == IF a >= 0 THEN a ELSE 0 - a

\* round(num / den) for den > 0: round half to even, as Python 3 does.
PyRound(num, den) ==
    LET q == num \div den
        r == num % den
    IN  IF 2 * r < den THEN q
        ELSE IF 2 * r > den THEN q + 1
        ELSE IF q % 2 = 0 THEN q ELSE q + 1

Digits == <<"0", "1", "2", "3", "4", "5", "6", "7", "8", "9">>

\* str.isdigit() on one ASCII character.
IsDigit(c) == \E i \in 1..Len(Digits) : Digits[i] = c

\* int(c) for a digit character c.
DigitValue(c) == (CHOOSE i \in 1..Len(Digits) : Digits[i] = c) - 1

Letters ==
    {"A", "B", "C", "D", "E", "F", "G", "H", "I", "J", "K", "L", "M",
     "N", "O", "P", "Q", "R", "S", "T", "U", "V", "W", "X", "Y", "Z",
     "a", "b", "c", "d", "e", "f", "g", "h", "i", "j", "k", "l", "m",
     "n", "o", "p", "q", "r", "s", "t", "u", "v", "w", "x", "y", "z"}

\* str.isalnum() on one ASCII character.
IsAlnum(c) == IsDigit(c) \/ c \in Letters

\* The characters str.strip() removes.
Whitespace == {" ", "\n", "\t", "\r"}

RECURSIVE Decimal(_)
\* f"{n}" for an integer n >= 0.
Decimal(n) ==
    IF n < 10 THEN <<Digits[n + 1]>>
    ELSE Decimal(n \div 10) \o <<Digits[(n % 10) + 1]>>

RECURSIVE LStrip(_)
LStrip(s) ==
    IF s # <<>> /\ Head(s) \in Whitespace THEN LStrip(Tail(s)) ELSE s

RECURSIVE RStrip(_)
RStrip(s) ==
    IF s # <<>> /\ s[Len(s)] \in Whitespace
    THEN RStrip(SubSeq(s, 1, Len(s) - 1))
    ELSE s

\* str.strip()
Strip(s) == RStrip(LStrip(s))

RECURSIVE SplitLines(_)
\* s.split('\n'): a sequence of lines, <<"">> for the empty text.
SplitLines(s) ==
    IF \E i \in 1..Len(s) : s[i] = "\n"
    THEN LET i == CHOOSE k \in 1..Len(s) :
                      s[k] = "\n" /\ \A j \in 1..(k - 1) : s[j] # "\n"
         IN  <<SubSeq(s, 1, i - 1)>> \o SplitLines(SubSeq(s, i + 1, Len(s)))
    ELSE <<s>>

RECURSIVE JoinLines(_)
\* '\n'.join(lines)
JoinLines(lines) ==
    IF lines = <<>> THEN <<>>
    ELSE IF Len(lines) = 1 THEN lines[1]
    ELSE lines[1] \o <<"\n">> \o JoinLines(Tail(lines))

RECURSIVE Flatten(_)
\* ''.join(parts)
Flatten(parts) ==
    IF parts = <<>> THEN <<>> ELSE Head(parts) \o Flatten(Tail(parts))

\* s[i:j] for 0 <= i and 0 <= j: a slice ends where the list ends.
Slice(s, i, j) == SubSeq(s, Min(i, Len(s)) + 1, Min(j, Len(s)))

\* All lists of at most n elements of S.
ListsUpTo(S, n) == UNION {[1..k -> S] : k \in 0..n}

\* ------------------------------------------------------------------------
\* shawzin_mapping.py and EncodingSettings
\* ------------------------------------------------------------------------

base64_chars ==
    <<"A", "B", "C", "D", "E", "F", "G", "H", "I", "J", "K", "L", "M",
      "N", "O", "P", "Q", "R", "S", "T", "U", "V", "W", "X", "Y", "Z",
      "a", "b", "c", "d", "e", "f", "g", "h", "i", "j", "k", "l", "m",
      "n", "o", "p", "q", "r", "s", "t", "u", "v", "w", "x", "y", "z",
      "0", "1", "2", "3", "4", "5", "6", "7", "8", "9", "+", "/">>

\* The 12 note symbols of every scale table.
NoteChars == {"1", "q", "a", "z", "2", "w", "s", "x", "3", "e", "d", "c"}

\* 4.0 s, in 1/64 s
seconds_per_measure == 256

\* 0.0625 s, in 1/64 s
seconds_per_tick == 4

max_notes_per_chunk == 1666

max_length_per_line == 256

\* EncodingSettings(): the defaults.
DefaultSettings ==
    [max_notes_per_chunk |-> max_notes_per_chunk,
     max_length_per_line |-> max_length_per_line,
     keep_offsets |-> TRUE,
     scale_id |-> 1]

\* ------------------------------------------------------------------------
\* The time codec
\* ------------------------------------------------------------------------

\* A mutant: the tick index is taken modulo one less than the alphabet size.
time_to_shawzin_time_short(delta_seconds) ==
    LET total_ticks == Max(0, PyRound(delta_seconds, seconds_per_tick))
        ticks_per_measure ==
            Max(1, PyRound(seconds_per_measure, seconds_per_tick))
        measure_index == total_ticks \div ticks_per_measure
        tick_index == total_ticks % ticks_per_measure
    IN  <<base64_chars[(measure_index % Len(base64_chars)) + 1],
          base64_chars[(tick_index % (Len(base64_chars) - 1)) + 1]>>

\* A mutant: a negative tick count is not clamped to zero.
time_to_shawzin_time_unclamped(delta_seconds) ==
    LET total_ticks == PyRound(delta_seconds, seconds_per_tick)
        ticks_per_measure ==
            Max(1, PyRound(seconds_per_measure, seconds_per_tick))
        measure_index == total_ticks \div ticks_per_measure
        tick_index == total_ticks % ticks_per_measure
    IN  <<base64_chars[(measure_index % Len(base64_chars)) + 1],
          base64_chars[(tick_index % Len(base64_chars)) + 1]>>

time_to_shawzin_time(delta_seconds) ==
    LET total_ticks == Max(0, PyRound(delta_seconds, seconds_per_tick))
        ticks_per_measure ==
            Max(1, PyRound(seconds_per_measure, seconds_per_tick))
        measure_index == total_ticks \div ticks_per_measure
        tick_index == total_ticks % ticks_per_measure
    IN  <<base64_chars[(measure_index % Len(base64_chars)) + 1],
          base64_chars[(tick_index % Len(base64_chars)) + 1]>>

\* base64_chars.index(c), 0-based; -1 stands for the ValueError of a miss.
Base64Index(c) ==
    IF \E i \in 1..Len(base64_chars) : base64_chars[i] = c
    THEN (CHOOSE i \in 1..Len(base64_chars) : base64_chars[i] = c) - 1
    ELSE -1

\* Returns [error, seconds]: error is TRUE where the source raises ValueError.
shawzin_time_to_seconds(time_str) ==
    IF Len(time_str) # 2 THEN [error |-> TRUE, seconds |-> 0]
    ELSE LET measure_index == Base64Index(time_str[1])
             tick_index == Base64Index(time_str[2])
             ticks_per_measure ==
                 Max(1, PyRound(seconds_per_measure, seconds_per_tick))
             total_ticks == measure_index * ticks_per_measure + tick_index
         IN  IF measure_index < 0 \/ tick_index < 0
             THEN [error |-> TRUE, seconds |-> 0]
             ELSE [error |-> FALSE, seconds |-> total_ticks * seconds_per_tick]

event_to_shawzin_token(shawzin_char, quantized_delta_seconds) ==
    <<shawzin_char>> \o time_to_shawzin_time(quantized_delta_seconds)

create_scale_header(scale_id) == Decimal(scale_id)

\* ------------------------------------------------------------------------
\* The codec: ShawzinEncoder, events_to_shawzin_text, write_shawzin_file,
\* read_shawzin_file
\* ------------------------------------------------------------------------

VARIABLES
    settings,             \* ShawzinEncoder.settings
    stats,                \* ShawzinEncoder.stats
    events,               \* the ShawzinNote list handed to the encoder
    mode,                 \* encode_events' mode argument
    max_notes,            \* events_to_shawzin_text's arguments ...
    max_length,
    keep_offsets,
    pos,                  \* index of the event the for loop handles next
    chunks,               \* ... and its locals
    current_chunk_lines,
    current_line,
    notes_in_chunk,
    last_time,
    files,                \* the text files on disk, in the order written
    content,              \* the text read_shawzin_file read last
    decoded,              \* what read_shawzin_file returned or raised
    pc                    \* "idle", "loop", "encoded", "written", "read"

codecVars ==
    <<settings, stats, events, mode, max_notes, max_length, keep_offsets, pos,
      chunks, current_chunk_lines, current_line, notes_in_chunk, last_time,
      files, content, decoded, pc>>

\* Single tokens: quick_encode_token, and analyze_timing_accuracy's decoding
\* of the token's time characters.
VARIABLES
    tk_char,              \* the note symbol
    tk_delta,             \* the delta time, in 1/64 s
    tk_token,             \* event_to_shawzin_token(tk_char, tk_delta)
    tk_decoded,           \* shawzin_time_to_seconds(tk_token[1:3])
    tk_pc                 \* "input", "token", "decoded"

tokenVars == <<tk_char, tk_delta, tk_token, tk_decoded, tk_pc>>

\* The pattern compressor: fold_repeats_into_refs and expand_pattern_refs.
VARIABLES
    tokens,               \* the token list to compress
    min_len,
    min_occurrences,
    patterns,             \* what find_repeating_sequences returned
    compressed,           \* what fold_repeats_into_refs returned ...
    patterns_dict,
    expanded,             \* what expand_pattern_refs returned
    pd_pc                 \* "input", "detected", "folded", "expanded"

patternVars ==
    <<tokens, min_len, min_occurrences, patterns, compressed, patterns_dict,
      expanded, pd_pc>>

\* The chord processor: process_all_chords.
VARIABLES
    ch_events,            \* the Event list handed to process_all_chords
    policy,               \* the ChordPolicy
    chord_groups,         \* what group_simultaneous returned
    group_index,          \* index of the group the for loop handles next
    processed_groups,     \* what process_chord_events returned, per group
    processed_events,     \* the list process_all_chords builds and returns
    ch_pc                 \* "input", "groups", "done"

chordVars ==
    <<ch_events, policy, chord_groups, group_index, processed_groups,
      processed_events, ch_pc>>

\* The note mapper: build_playable_table and map_note_to_shawzin called on
\* their own, and a ShawzinMapper.
VARIABLES
    bt_scale_id,          \* build_playable_table's arguments ...
    bt_octave_range,
    playable_table,       \* ... and what it returned, or a table given
    bt_error,             \* whether the last call raised ValueError
    note_midi,            \* map_note_to_shawzin's argument ...
    mapped,               \* ... and what it returned
    bt_pc,                \* "off", "input", "table", "mapped"
    mapping_settings,     \* ShawzinMapper.settings
    playable_tables,      \* ShawzinMapper.playable_tables, the table cache
    current_scale_id,     \* ShawzinMapper.current_scale_id
    mp_events,            \* the arguments of the last call of map_events ...
    mp_scale_id,
    shawzin_notes,        \* ... what it returned ...
    mp_error,             \* ... and whether it raised ValueError
    mp_calls              \* the number of calls of map_events so far

mapperVars ==
    <<bt_scale_id, bt_octave_range, playable_table, bt_error, note_midi,
      mapped, bt_pc, mapping_settings, playable_tables, current_scale_id,
      mp_events, mp_scale_id, shawzin_notes, mp_error, mp_calls>>

\* The quantizer: quantize_events, detect_tempo_from_events and a Quantizer.
VARIABLES
    qz_settings,          \* Quantizer.settings, or the settings argument
    last_tempo,           \* Quantizer.last_tempo
    qz_events,            \* the Event list of the last call ...
    qz_tempo_bpm,         \* ... Quantizer.quantize's tempo_bpm ...
    qz_tempo_us,          \* ... quantize_events' tempo_us_per_beat
    qz_via,               \* which of the three is called
    quantized_events,     \* what the last call returned
    estimated_tempo,      \* what detect_tempo_from_events returned
    qz_pc                 \* "off", "input", "once", "twice", "tempo"

quantizerVars ==
    <<qz_settings, last_tempo, qz_events, qz_tempo_bpm, qz_tempo_us, qz_via,
      quantized_events, estimated_tempo, qz_pc>>

\* The MIDI reader's merge_note_events.
VARIABLES
    mg_events,            \* the note_on/note_off stream handed in
    mg_index,             \* index of the event the for loop handles next
    active_notes,         \* the dict: <<note_key, event>> in insertion order
    merged_events,        \* the list being built and returned
    mg_pc                 \* "off", "loop", "done"

mergeVars == <<mg_events, mg_index, active_notes, merged_events, mg_pc>>

\* Key detection: detect_best_scale.
VARIABLES
    kd_events,            \* the events handed in
    candidate_scales,     \* the scale ids to test
    kd_histogram,         \* the pitch class histogram
    best_candidates,      \* the candidates scored so far
    kd_result,            \* what detect_best_scale returned
    kd_pc                 \* "off", "input", "scales", "done"

keyVars ==
    <<kd_events, candidate_scales, kd_histogram, best_candidates, kd_result,
      kd_pc>>

\* convert_midi_file (cli.py), from the merged events to the encoded text
VARIABLES
    cv_events,            \* events, as merge_note_events returned them
    scale_override,       \* the arguments ...
    detect_key,
    cv_mode,
    cv_keep_offsets,
    chord_policy,
    last_analysis,        \* what detect_best_scale returned, or NoAnalysis
    cv_scale_id,          \* the local scale_id
    cv_quantized,         \* the local quantized_events
    cv_processed,         \* the local processed_events
    cv_table,             \* the local playable_table
    shawzin_events,       \* what map_events_to_shawzin_events returned
    cv_pc                 \* "off", "loaded", "key", "quantized", "chords",
                          \* "mapped", "encoding"

convertVars ==
    <<cv_events, scale_override, detect_key, cv_mode, cv_keep_offsets,
      chord_policy, last_analysis, cv_scale_id, cv_quantized, cv_processed,
      cv_table, shawzin_events, cv_pc>>

\* The variables of the components declared after the quantizer.
furtherVars == <<mergeVars, keyVars, convertVars>>

\* The variables of the components declared after the pattern compressor.
laterVars == <<chordVars, mapperVars, quantizerVars, furtherVars>>

\* What the actions of one of these components leave alone.
otherThanChord ==
    <<codecVars, tokenVars, patternVars, mapperVars, quantizerVars,
      furtherVars>>
otherThanMapper ==
    <<codecVars, tokenVars, patternVars, chordVars, quantizerVars,
      furtherVars>>
otherThanQuantizer ==
    <<codecVars, tokenVars, patternVars, chordVars, mapperVars, furtherVars>>
otherThanMerge ==
    <<codecVars, tokenVars, patternVars, chordVars, mapperVars,
      quantizerVars, keyVars, convertVars>>
otherThanKey ==
    <<codecVars, tokenVars, patternVars, chordVars, mapperVars,
      quantizerVars, mergeVars, convertVars>>
otherThanConvert ==
    <<codecVars, tokenVars, patternVars, chordVars, mapperVars,
      quantizerVars, mergeVars, keyVars>>

vars == <<codecVars, tokenVars, patternVars, laterVars>>

\* ShawzinNote, with the fields the encoder reads.
ShawzinNote(character, time_sec, scale_id) ==
    [character |-> character, time_sec |-> time_sec, scale_id |-> scale_id]

\* ShawzinEncoder.__init__: the statistics of a fresh encoder.
InitialStats ==
    [notes_encoded |-> 0, chunks_created |-> 0, total_duration |-> 0]

RECURSIVE MaxTime(_)
\* max(e.time_sec for e in events), for a non-empty list
MaxTime(evs) ==
    IF Len(evs) = 1 THEN evs[1].time_sec
    ELSE Max(evs[1].time_sec, MaxTime(Tail(evs)))

\* encode_events: the statistics after events_to_shawzin_text returned cs.
UpdatedStats(evs, cs) ==
    [notes_encoded |-> Len(evs),
     chunks_created |-> Len(cs),
     total_duration |->
         IF evs # <<>> THEN MaxTime(evs) ELSE stats.total_duration]

\* encode_events, melody mode: "more permissive chunking".
MelodyMaxNotes(limit) == limit * 2

\* A mutant: the chunk is closed one note late.
NeedNewChunk_late(count, limit) == count > limit

\* "Check if we need to start a new chunk"
NeedNewChunk(count, limit) == count >= limit

\* A mutant: the line is closed only once it is already too long.
NeedNewLine_late(line, token, limit) == Len(line) > limit

\* "Check if adding token would exceed line length"
NeedNewLine(line, token, limit) == Len(line) + Len(token) > limit

\* A mutant: a chunk started after a split takes the header of the settings.
NewChunkHeader_settings(event) == create_scale_header(settings.scale_id)

\* The header of a chunk started after a split.
NewChunkHeader(event) == create_scale_header(event.scale_id)

\* ShawzinEncoder.encode_events up to the first iteration of the loop of
\* events_to_shawzin_text; an empty list returns at once.
encode_events(m) ==
    /\ pc = "idle"
    /\ files = <<>>
    /\ mode' = m
    /\ max_notes' = IF m = "melody"
                    THEN MelodyMaxNotes(settings.max_notes_per_chunk)
                    ELSE settings.max_notes_per_chunk
    /\ keep_offsets' = IF m = "melody" THEN TRUE ELSE settings.keep_offsets
    /\ max_length' = settings.max_length_per_line
    /\ current_chunk_lines' = <<>>
    /\ notes_in_chunk' = 0
    /\ last_time' = 0
    /\ pos' = 1
    /\ IF events = <<>>
       THEN /\ chunks' = <<create_scale_header(settings.scale_id)>>
            /\ current_line' = <<>>
            /\ stats' = UpdatedStats(events, chunks')
            /\ pc' = "encoded"
       ELSE /\ chunks' = <<>>
            /\ current_line' = create_scale_header(events[1].scale_id)
            /\ stats' = stats
            /\ pc' = "loop"
    /\ UNCHANGED <<settings, events, files, content, decoded>>
    /\ UNCHANGED <<tokenVars, patternVars, laterVars>>

\* A variant: the note that opens a chunk keeps the delta to the note before.
NewChunkDelta_kept(delta_time, keep) == delta_time

\* "Recalculate delta for new chunk": "First note in chunk has no delta".
NewChunkDelta(delta_time, keep) == IF keep THEN 0 ELSE delta_time

\* A variant: a wrap starts an empty line.
NextLine_dropped(line, token, wrap) ==
    IF wrap THEN <<>> ELSE line \o token

\* current_line after the token is placed: "Start new line" / "Add to
\* current line".
NextLine(line, token, wrap) ==
    IF wrap THEN token ELSE line \o token

\* One iteration of "for event in events".
LoopBody ==
    /\ pc = "loop"
    /\ pos <= Len(events)
    /\ LET event == events[pos]
           delta1 == IF keep_offsets THEN event.time_sec - last_time ELSE 0
           last1 == IF keep_offsets THEN event.time_sec ELSE last_time
           split == NeedNewChunk(notes_in_chunk, max_notes)
           closed == IF current_line # <<>>
                     THEN Append(current_chunk_lines, current_line)
                     ELSE current_chunk_lines
           lines1 == IF split THEN <<NewChunkHeader(event)>>
                     ELSE current_chunk_lines
           line1 == IF split THEN <<>> ELSE current_line
           count1 == IF split THEN 0 ELSE notes_in_chunk
           delta2 == IF split THEN NewChunkDelta(delta1, keep_offsets)
                     ELSE delta1
           token == event_to_shawzin_token(event.character, delta2)
           wrap == NeedNewLine(line1, token, max_length)
       IN  /\ chunks' = IF split THEN Append(chunks, JoinLines(closed))
                        ELSE chunks
           /\ current_chunk_lines' = IF wrap THEN Append(lines1, line1)
                                     ELSE lines1
           /\ current_line' = NextLine(line1, token, wrap)
           /\ notes_in_chunk' = count1 + 1
           /\ last_time' = IF split THEN event.time_sec ELSE last1
    /\ pos' = pos + 1
    /\ UNCHANGED <<settings, stats, events, mode, max_notes, max_length,
                   keep_offsets, files, content, decoded, pc>>
    /\ UNCHANGED <<tokenVars, patternVars, laterVars>>

\* The end of the loop: "Finish final chunk", the return, and encode_events'
\* update of the statistics.
FinishChunks ==
    /\ pc = "loop"
    /\ pos > Len(events)
    /\ LET lines == IF current_line # <<>>
                    THEN Append(current_chunk_lines, current_line)
                    ELSE current_chunk_lines
           all == IF lines # <<>> THEN Append(chunks, JoinLines(lines))
                  ELSE chunks
       IN  /\ chunks' = IF all # <<>> THEN all
                        ELSE <<create_scale_header(events[1].scale_id)>>
           /\ current_chunk_lines' = lines
    /\ stats' = UpdatedStats(events, chunks')
    /\ pc' = "encoded"
    /\ UNCHANGED <<settings, events, mode, max_notes, max_length,
                   keep_offsets, pos, current_line, notes_in_chunk,
                   last_time, files, content, decoded>>
    /\ UNCHANGED <<tokenVars, patternVars, laterVars>>

\* write_shawzin_file, as encode_to_file calls it: the text of each file.
write_shawzin_file ==
    /\ pc = "encoded"
    /\ files' = IF mode = "melody" \/ Len(chunks) = 1 THEN <<chunks[1]>>
                ELSE chunks
    /\ pc' = "written"
    /\ UNCHANGED <<settings, stats, events, mode, max_notes, max_length,
                   keep_offsets, pos, chunks, current_chunk_lines,
                   current_line, notes_in_chunk, last_time, content, decoded>>
    /\ UNCHANGED <<tokenVars, patternVars, laterVars>>

\* A mutant: a header digit outside 1-9 falls back to scale 1 like a
\* non-digit.
ParseHeader_lenient(text) ==
    LET lines == SplitLines(text)
        first_line == Strip(lines[1])
        rest == IF Len(lines) > 1 THEN JoinLines(Tail(lines)) ELSE <<>>
        digit == first_line # <<>> /\ IsDigit(first_line[1])
    IN  IF digit /\ DigitValue(first_line[1]) \in 1..9
        THEN [error |-> FALSE,
              scale_id |-> DigitValue(first_line[1]),
              token_content |->
                  IF Len(first_line) = 1 THEN rest
                  ELSE Tail(first_line) \o
                       (IF Len(lines) > 1 THEN <<"\n">> \o rest ELSE <<>>)]
        ELSE [error |-> FALSE, scale_id |-> 1, token_content |-> text]

\* read_shawzin_file, "Find scale header": text is the stripped content.
\* error is TRUE where the source raises ValueError.
ParseHeader(text) ==
    LET lines == SplitLines(text)
        first_line == Strip(lines[1])
        rest == IF Len(lines) > 1 THEN JoinLines(Tail(lines)) ELSE <<>>
    IN  IF first_line # <<>> /\ IsDigit(first_line[1])
        THEN IF ~(DigitValue(first_line[1]) \in 1..9)
             THEN [error |-> TRUE, scale_id |-> DigitValue(first_line[1]),
                   token_content |-> <<>>]
             ELSE [error |-> FALSE,
                   scale_id |-> DigitValue(first_line[1]),
                   token_content |->
                       IF Len(first_line) = 1 THEN rest
                       ELSE Tail(first_line) \o
                            (IF Len(lines) > 1 THEN <<"\n">> \o rest
                             ELSE <<>>)]
        ELSE [error |-> FALSE, scale_id |-> 1, token_content |-> text]

\* "keep only valid token characters": c.isalnum()
KeepTokenChar(c) == IsAlnum(c)

RECURSIVE ParseTokens(_, _, _, _)
\* read_shawzin_file, "Process in 3-character chunks": the loop from offset i
\* (0-based) on.  Returns [error, notes], notes a list of <<char, time>>.
ParseTokens(filtered, i, current_time, notes) ==
    IF i >= Len(filtered) THEN [error |-> FALSE, notes |-> notes]
    ELSE IF i + 2 < Len(filtered)
    THEN LET char == filtered[i + 1]
             time_str == SubSeq(filtered, i + 2, i + 3)
             delta == shawzin_time_to_seconds(time_str)
         IN  IF delta.error THEN [error |-> TRUE, notes |-> notes]
             ELSE ParseTokens(filtered, i + 3, current_time + delta.seconds,
                              Append(notes, <<char, current_time + delta.seconds>>))
    ELSE ParseTokens(filtered, i + 3, current_time, notes)

\* read_shawzin_file on a file holding raw.
\* Returns [error, scale_id, notes]; error is TRUE where it raises ValueError.
read_shawzin_file(raw) ==
    LET text == Strip(raw)
        header == ParseHeader(text)
        filtered == SelectSeq(header.token_content, KeepTokenChar)
        parsed == ParseTokens(filtered, 0, 0, <<>>)
    IN  IF text = <<>> THEN [error |-> TRUE, scale_id |-> 0, notes |-> <<>>]
        ELSE IF header.error
        THEN [error |-> TRUE, scale_id |-> header.scale_id, notes |-> <<>>]
        ELSE IF parsed.error
        THEN [error |-> TRUE, scale_id |-> header.scale_id, notes |-> parsed.notes]
        ELSE [error |-> FALSE, scale_id |-> header.scale_id, notes |-> parsed.notes]

\* A call read_shawzin_file(path) on the k-th file.
ReadShawzinFile(k) ==
    /\ pc \in {"idle", "written"}
    /\ k \in 1..Len(files)
    /\ content' = files[k]
    /\ decoded' = read_shawzin_file(files[k])
    /\ pc' = "read"
    /\ UNCHANGED <<settings, stats, events, mode, max_notes, max_length,
                   keep_offsets, pos, chunks, current_chunk_lines,
                   current_line, notes_in_chunk, last_time, files>>
    /\ UNCHANGED <<tokenVars, patternVars, laterVars>>

Next ==
    \/ \E m \in {"melody", "full"} : encode_events(m)
    \/ LoopBody
    \/ FinishChunks
    \/ write_shawzin_file
    \/ \E k \in 1..Len(files) : ReadShawzinFile(k)

\* ------------------------------------------------------------------------
\* The inputs of the codec
\* ------------------------------------------------------------------------

MaxEvents == 4

MaxChunkNotes == 2

MaxLineLength == 7

MaxPieces == 3

\* The state before any call: a fresh encoder with settings s, the note list
\* evs to encode and the files fs on disk.
CodecStart(s, evs, fs) ==
    /\ settings = s
    /\ stats = InitialStats
    /\ events = evs
    /\ mode = "melody"
    /\ max_notes = max_notes_per_chunk
    /\ max_length = max_length_per_line
    /\ keep_offsets = TRUE
    /\ pos = 1
    /\ chunks = <<>>
    /\ current_chunk_lines = <<>>
    /\ current_line = <<>>
    /\ notes_in_chunk = 0
    /\ last_time = 0
    /\ files = fs
    /\ content = <<>>
    /\ decoded = [error |-> FALSE, scale_id |-> 0, notes |-> <<>>]
    /\ pc = "idle"

\* Note times, in 1/64 s: on the tick grid (0, 4), off it (2, 6: half a tick
\* from the grid), 62 ticks (248: tick index 62, the character "+") and 4096
\* ticks (16384: one more than two time characters hold).
TimingSamples == {0, 2, 4, 6, 248, 16384}

\* Note lists as ShawzinMapper.map_events returns them: one scale id stamped
\* on every note; the notes need not be in time order.
NoteLists(chars, times, scale_id) ==
    ListsUpTo({ShawzinNote(c, t, scale_id) : c \in chars, t \in times},
              MaxEvents)

\* Files a user may hand to read_shawzin_file: an optional first character
\* (a valid header, "0", a note symbol, "#"), an optional separator, and up to
\* MaxPieces pieces (tokens, a line break, a lone character).
TextPieces ==
    {<<"1", "A", "A">>, <<"q", "A", "B">>, <<"2", "A", "+">>, <<"\n">>,
     <<"3">>}

SampleTexts ==
    {h \o sep \o Flatten(body) :
        h \in {<<>>, <<"0">>, <<"2">>, <<"9">>, <<"q">>, <<"#">>},
        sep \in {<<>>, <<"\n">>, <<" ">>},
        body \in ListsUpTo(TextPieces, MaxPieces)}

\* Encoder settings with small limits, so that chunks fill and lines wrap.
SmallSettings ==
    [max_notes_per_chunk : 1..MaxChunkNotes,
     max_length_per_line : 1..MaxLineLength,
     keep_offsets : BOOLEAN,
     scale_id : {1}]

\* ------------------------------------------------------------------------
\* Single tokens: quick_encode_token and the decoding of its time characters
\* (analyze_timing_accuracy)
\* ------------------------------------------------------------------------

MinDelta == 40

MaxDelta == 16500

TokenStart(c, d) ==
    /\ tk_char = c
    /\ tk_delta = d
    /\ tk_token = <<>>
    /\ tk_decoded = [error |-> FALSE, seconds |-> 0]
    /\ tk_pc = "input"

quick_encode_token ==
    /\ tk_pc = "input"
    /\ tk_token' = event_to_shawzin_token(tk_char, tk_delta)
    /\ tk_pc' = "token"
    /\ UNCHANGED <<tk_char, tk_delta, tk_decoded>>
    /\ UNCHANGED <<codecVars, patternVars, laterVars>>

DecodeTokenTime ==
    /\ tk_pc = "token"
    /\ tk_decoded' = shawzin_time_to_seconds(SubSeq(tk_token, 2, 3))
    /\ tk_pc' = "decoded"
    /\ UNCHANGED <<tk_char, tk_delta, tk_token>>
    /\ UNCHANGED <<codecVars, patternVars, laterVars>>

NextTime == quick_encode_token \/ DecodeTokenTime

\* ------------------------------------------------------------------------
\* The pattern compressor (pattern_detection.py).  A token is a text; list
\* positions are 0-based as in the source.
\* ------------------------------------------------------------------------

\* The hash of a window is modelled by the text hashed: equal texts have
\* equal hashes, different texts different ones.
rolling_hash(toks, window_size) ==
    IF window_size > Len(toks) THEN <<>>
    ELSE [i \in 1..(Len(toks) - window_size + 1) |->
              Flatten(Slice(toks, i - 1, i - 1 + window_size))]

RECURSIVE HashGroups(_, _, _)
\* find_repeating_sequences, "Group by hash value": the dictionary
\* hash_groups as the list of its items in insertion order, filled from
\* window i on.
HashGroups(hashes, i, groups) ==
    IF i >= Len(hashes) THEN groups
    ELSE LET h == hashes[i + 1]
         IN  IF \E g \in 1..Len(groups) : groups[g].hash = h
             THEN HashGroups(hashes, i + 1,
                      [g \in 1..Len(groups) |->
                          IF groups[g].hash = h
                          THEN [hash |-> h,
                                indices |-> Append(groups[g].indices, i)]
                          ELSE groups[g]])
             ELSE HashGroups(hashes, i + 1,
                      Append(groups, [hash |-> h, indices |-> <<i>>]))

\* "Check for overlap with already found patterns"
Overlaps(idx, pattern_len, pats) ==
    \E p \in 1..Len(pats) :
        \E e \in 1..Len(pats[p][1]) :
            /\ idx < pats[p][1][e] + pats[p][2]
            /\ idx + pattern_len > pats[p][1][e]

RECURSIVE ConfirmIndices(_, _, _, _, _, _)
\* The loop "for idx in indices[1:]", from the k-th index of the group on.
ConfirmIndices(toks, indices, k, pattern_len, pats, confirmed) ==
    IF k > Len(indices) THEN confirmed
    ELSE LET idx == indices[k]
             base_pattern ==
                 Slice(toks, indices[1], indices[1] + pattern_len)
             candidate == Slice(toks, idx, idx + pattern_len)
         IN  ConfirmIndices(toks, indices, k + 1, pattern_len, pats,
                 IF candidate = base_pattern
                    /\ ~Overlaps(idx, pattern_len, pats)
                 THEN Append(confirmed, idx)
                 ELSE confirmed)

RECURSIVE ScanGroups(_, _, _, _, _, _)
\* The loop "for hash_val, indices in hash_groups.items()", from group g on.
ScanGroups(toks, groups, g, pattern_len, min_occ, pats) ==
    IF g > Len(groups) THEN pats
    ELSE LET indices == groups[g].indices
             confirmed ==
                 ConfirmIndices(toks, indices, 2, pattern_len, pats,
                                <<indices[1]>>)
         IN  ScanGroups(toks, groups, g + 1, pattern_len, min_occ,
                 IF Len(indices) >= min_occ /\ Len(confirmed) >= min_occ
                 THEN Append(pats, <<confirmed, pattern_len>>)
                 ELSE pats)

RECURSIVE ScanLengths(_, _, _, _, _)
\* The loop "for pattern_len in range(max_len, min_len - 1, -1)".
ScanLengths(toks, pattern_len, ml, min_occ, pats) ==
    IF pattern_len < ml THEN pats
    ELSE ScanLengths(toks, pattern_len - 1, ml, min_occ,
             ScanGroups(toks,
                        HashGroups(rolling_hash(toks, pattern_len), 0, <<>>),
                        1, pattern_len, min_occ, pats))

\* The sort key: length * occurrences.
Savings(p) == p[2] * Len(p[1])

RECURSIVE InsertBySavings(_, _)
InsertBySavings(sorted, p) ==
    IF sorted = <<>> THEN <<p>>
    ELSE IF Savings(Head(sorted)) >= Savings(p)
    THEN <<Head(sorted)>> \o InsertBySavings(Tail(sorted), p)
    ELSE <<p>> \o sorted

RECURSIVE SortBySavings(_, _, _)
\* patterns.sort(key=..., reverse=True): stable, largest savings first.
SortBySavings(pats, k, sorted) ==
    IF k > Len(pats) THEN sorted
    ELSE SortBySavings(pats, k + 1, InsertBySavings(sorted, pats[k]))

\* A variant: the scan of the lengths stops one above min_len.
find_repeating_sequences_longer(toks, ml, min_occ) ==
    IF Len(toks) < ml THEN <<>>
    ELSE SortBySavings(
             ScanLengths(toks, Min(Len(toks) \div min_occ, 50), ml + 1,
                         min_occ, <<>>),
             1, <<>>)

\* Returns a list of <<start_indices, length>>.
find_repeating_sequences(toks, ml, min_occ) ==
    IF Len(toks) < ml THEN <<>>
    ELSE SortBySavings(
             ScanLengths(toks, Min(Len(toks) \div min_occ, 50), ml, min_occ,
                         <<>>),
             1, <<>>)

RECURSIVE Occurrences(_, _, _, _)
\* fold_repeats_into_refs, "Find current occurrences in compressed tokens":
\* the positions from i on, ascending.
Occurrences(comp, pattern_tokens, i, found) ==
    IF i >= Len(comp) - Len(pattern_tokens) + 1 THEN found
    ELSE Occurrences(comp, pattern_tokens, i + 1,
             IF Slice(comp, i, i + Len(pattern_tokens)) = pattern_tokens
             THEN Append(found, i)
             ELSE found)

\* s[i:j] = [x]
SliceAssign(s, i, j, x) ==
    Slice(s, 0, i) \o <<x>> \o Slice(s, Max(i, j), Len(s))

RECURSIVE ReplaceOccurrences(_, _, _, _, _)
\* "Replace from right to left": the occurrences k, k - 1, .., 1.
ReplaceOccurrences(comp, occs, k, length, ref_token) ==
    IF k = 0 THEN comp
    ELSE ReplaceOccurrences(
             SliceAssign(comp, occs[k], occs[k] + length, ref_token),
             occs, k - 1, length, ref_token)

\* The empty dictionary.
EmptyDict == [id \in {} |-> <<>>]

RECURSIVE FoldPatterns(_, _, _, _, _, _, _)
\* The loop "for start_indices, length in patterns", from pattern k on.
FoldPatterns(toks, pats, k, comp, dict, pattern_id, min_occ) ==
    IF k > Len(pats)
    THEN [compressed |-> comp, patterns_dict |-> dict]
    ELSE LET start_indices == pats[k][1]
             length == pats[k][2]
             pattern_tokens ==
                 Slice(toks, start_indices[1], start_indices[1] + length)
             current_pattern_id == <<"P">> \o Decimal(pattern_id)
             current_occurrences == Occurrences(comp, pattern_tokens, 0, <<>>)
             ref_token == <<"@">> \o current_pattern_id
         IN  IF Len(current_occurrences) >= min_occ
             THEN FoldPatterns(toks, pats, k + 1,
                      ReplaceOccurrences(comp, current_occurrences,
                                         Len(current_occurrences), length,
                                         ref_token),
                      (current_pattern_id :> pattern_tokens) @@ dict,
                      pattern_id + 1, min_occ)
             ELSE FoldPatterns(toks, pats, k + 1, comp, dict, pattern_id,
                               min_occ)

\* Returns [compressed, patterns_dict].
fold_repeats_into_refs(toks, ml, min_occ) ==
    LET pats == find_repeating_sequences(toks, ml, min_occ)
    IN  IF toks = <<>> \/ pats = <<>>
        THEN [compressed |-> toks, patterns_dict |-> EmptyDict]
        ELSE FoldPatterns(toks, pats, 1, toks, EmptyDict, 1, min_occ)

RECURSIVE expand_pattern_refs(_, _)
expand_pattern_refs(compressed_tokens, dict) ==
    IF compressed_tokens = <<>> THEN <<>>
    ELSE LET token == Head(compressed_tokens)
         IN  (IF token # <<>> /\ token[1] = "@" /\ Tail(token) \in DOMAIN dict
              THEN dict[Tail(token)]
              ELSE <<token>>)
             \o expand_pattern_refs(Tail(compressed_tokens), dict)

MaxTokens == 6

MaxMinLen == 3

MaxMinOccurrences == 3

\* Tokens as the encoder produces them.
TokenSamples == {<<"1", "A", "A">>, <<"2", "A", "B">>, <<"q", "B", "A">>}

PatternStart(toks, ml, min_occ) ==
    /\ tokens = toks
    /\ min_len = ml
    /\ min_occurrences = min_occ
    /\ patterns = <<>>
    /\ compressed = <<>>
    /\ patterns_dict = EmptyDict
    /\ expanded = <<>>
    /\ pd_pc = "input"

\* A call find_repeating_sequences(tokens, min_len, min_occurrences).
DetectPatterns ==
    /\ pd_pc = "input"
    /\ patterns' = find_repeating_sequences(tokens, min_len, min_occurrences)
    /\ pd_pc' = "detected"
    /\ UNCHANGED <<tokens, min_len, min_occurrences, compressed,
                   patterns_dict, expanded>>
    /\ UNCHANGED <<codecVars, tokenVars, laterVars>>

\* A call fold_repeats_into_refs(tokens, min_len, min_occurrences).
FoldRepeats ==
    /\ pd_pc = "input"
    /\ LET folded == fold_repeats_into_refs(tokens, min_len, min_occurrences)
       IN  /\ compressed' = folded.compressed
           /\ patterns_dict' = folded.patterns_dict
    /\ patterns' = find_repeating_sequences(tokens, min_len, min_occurrences)
    /\ pd_pc' = "folded"
    /\ UNCHANGED <<tokens, min_len, min_occurrences, expanded>>
    /\ UNCHANGED <<codecVars, tokenVars, laterVars>>

\* A call expand_pattern_refs(compressed, patterns_dict).
ExpandRefs ==
    /\ pd_pc = "folded"
    /\ expanded' = expand_pattern_refs(compressed, patterns_dict)
    /\ pd_pc' = "expanded"
    /\ UNCHANGED <<tokens, min_len, min_occurrences, patterns, compressed,
                   patterns_dict>>
    /\ UNCHANGED <<codecVars, tokenVars, laterVars>>

NextPatterns == DetectPatterns \/ FoldRepeats \/ ExpandRefs

\* ------------------------------------------------------------------------
\* chord_handling.py
\*
\* Times of this component are integers in units of 1/6 ms, so that the
\* arpeggio step spread / (n - 1) is exact for the groups of up to
\* MaxChordEvents notes.
\* ------------------------------------------------------------------------

\* The list of the values f[1], ..., f[n] of a function on 1..n.
ListOf(f, n) == SubSeq(f, 1, n)

\* The place of each element of a stable ascending sort of a list with the
\* given keys.
RankOf(keys) ==
    ListOf([i \in 1..Len(keys) |->
               Cardinality({j \in 1..Len(keys) :
                               \/ keys[j] < keys[i]
                               \/ keys[j] = keys[i] /\ j < i}) + 1],
           Len(keys))

\* The list with each element at its place.
Permute(seq, rank) ==
    ListOf([r \in 1..Len(seq) |-> seq[CHOOSE i \in 1..Len(seq) : rank[i] = r]],
           Len(seq))

\* sorted(seq, key=Key): stable, ascending.
SortedBy(seq, Key(_)) ==
    Permute(seq, RankOf(ListOf([i \in 1..Len(seq) |-> Key(seq[i])],
                               Len(seq))))

PySorted(seq) == SortedBy(seq, LAMBDA x : x)

\* x in seq
InSeq(x, seq) == \E i \in 1..Len(seq) : seq[i] = x

\* midi_io.Event, with the fields the chord processor reads and writes.
Event(type, note, time_sec, delta_sec) ==
    [type |-> type, note |-> note, time_sec |-> time_sec,
     delta_sec |-> delta_sec]

\* ChordPolicy's defaults.
max_chord_notes == 3
arpeggio_spread_ms == 120
simultaneity_threshold == 6

ChordPolicy(max, reduction_mode) ==
    [max_chord_notes |-> max, reduction_mode |-> reduction_mode,
     arpeggio_spread_ms |-> arpeggio_spread_ms,
     simultaneity_threshold |-> simultaneity_threshold]

RECURSIVE GroupLoop(_, _, _, _, _, _)
\* group_simultaneous' loop over sorted_events[1:].
GroupLoop(sorted_events, k, groups, current_group, current_time, eps) ==
    IF k > Len(sorted_events) THEN Append(groups, current_group)
    ELSE IF Abs(sorted_events[k].time_sec - current_time) <= eps
    THEN GroupLoop(sorted_events, k + 1, groups,
                   Append(current_group, sorted_events[k]), current_time,
                   eps)
    ELSE GroupLoop(sorted_events, k + 1, Append(groups, current_group),
                   <<sorted_events[k]>>, sorted_events[k].time_sec, eps)

group_simultaneous(evs, eps) ==
    IF evs = <<>> THEN <<>>
    ELSE LET sorted_events == SortedBy(evs, LAMBDA e : e.time_sec)
         IN  GroupLoop(sorted_events, 2, <<>>, <<sorted_events[1]>>,
                       sorted_events[1].time_sec, eps)

\* The last element of seq that satisfies P, as a list of 0 or 1 elements.
LastWhere(seq, P(_)) ==
    LET idx == {i \in 1..Len(seq) : P(seq[i])}
    IN  IF idx = {} THEN <<>>
        ELSE <<seq[CHOOSE i \in idx : \A j \in idx : j <= i]>>

\* The dictionary analyze_chord_structure returns for a non-empty list; the
\* optional keys 'third' and 'fifth' are lists of 0 or 1 notes.
analyze_chord_structure(notes) ==
    LET sorted_notes == PySorted(notes)
        root == sorted_notes[1]
    IN  [bass |-> sorted_notes[1],
         melody |-> sorted_notes[Len(sorted_notes)],
         root |-> root,
         third |-> IF Len(sorted_notes) >= 3
                   THEN LastWhere(sorted_notes,
                                  LAMBDA n : (n - root) % 12 \in {3, 4})
                   ELSE <<>>,
         fifth |-> IF Len(sorted_notes) >= 3
                   THEN LastWhere(sorted_notes,
                                  LAMBDA n : (n - root) % 12 = 7)
                   ELSE <<>>]

RECURSIVE AddCandidates(_, _)
\* "Add candidates up to remaining slots".
AddCandidates(selected_notes, candidates) ==
    IF candidates = <<>> THEN selected_notes
    ELSE AddCandidates(
             IF InSeq(Head(candidates), selected_notes) THEN selected_notes
             ELSE Append(selected_notes, Head(candidates)),
             Tail(candidates))

\* "Always include bass/root", "Always include melody if different".
SelectBassMelody(analysis) ==
    IF analysis.melody # analysis.bass
    THEN <<analysis.bass, analysis.melody>>
    ELSE <<analysis.bass>>

reduce_chord(notes_in_chord, reduction_policy, limit) ==
    IF Len(notes_in_chord) <= limit THEN notes_in_chord
    ELSE IF reduction_policy = "arpeggiate" THEN PySorted(notes_in_chord)
    ELSE LET analysis == analyze_chord_structure(notes_in_chord)
             selected_notes == SelectBassMelody(analysis)
             remaining_slots == limit - Len(selected_notes)
             triad == analysis.third \o analysis.fifth
             middle_notes ==
                 SortedBy(SelectSeq(PySorted(notes_in_chord),
                                    LAMBDA n : ~InSeq(n, selected_notes)),
                          LAMBDA n : Abs(2 * n - (analysis.bass
                                                  + analysis.melody)))
             candidates == IF triad # <<>> THEN triad ELSE middle_notes
         IN  PySorted(IF remaining_slots > 0
                      THEN AddCandidates(selected_notes,
                                         Slice(candidates, 0,
                                               remaining_slots))
                      ELSE selected_notes)

\* A variant: the arpeggio starts at the time of the chord's first event.
create_arpeggio_events_from_first(chord_events, spread_ms) ==
    IF Len(chord_events) <= 1 THEN chord_events
    ELSE LET sorted_events == SortedBy(chord_events, LAMBDA e : e.note)
             base_time == chord_events[1].time_sec
             time_step == spread_ms \div (Len(sorted_events) - 1)
             new_time(i) == base_time + (i - 1) * time_step
         IN  [i \in 1..Len(sorted_events) |->
                 [sorted_events[i] EXCEPT
                      !.time_sec = new_time(i),
                      !.delta_sec = IF i = 1 THEN new_time(i)
                                    ELSE new_time(i) - new_time(i - 1)]]

create_arpeggio_events(chord_events, spread_ms) ==
    IF Len(chord_events) <= 1 THEN chord_events
    ELSE LET sorted_events == SortedBy(chord_events, LAMBDA e : e.note)
             base_time == sorted_events[1].time_sec
             time_step == spread_ms \div (Len(sorted_events) - 1)
             new_time(i) == base_time + (i - 1) * time_step
         IN  [i \in 1..Len(sorted_events) |->
                 [sorted_events[i] EXCEPT
                      !.time_sec = new_time(i),
                      !.delta_sec = IF i = 1 THEN new_time(i)
                                    ELSE new_time(i) - new_time(i - 1)]]

\* The names of the chords in chordDict, its keys.
chordDict ==
    {"major", "minor", "diminished", "augmented", "sus2", "sus4", "major7",
     "minor7", "dominant7", "diminished7", "half_diminished7", "major9",
     "minor9", "dominant9", "power", "power_octave"}

\* isinstance(chord_pattern, (list, tuple)) for a key of chordDict: the keys
\* are strings.
IsPattern(chord_pattern) == ~(chord_pattern \in STRING)

\* Whether map_chord_to_shawzin returns a character: only a key that is a
\* list or tuple is compared with the chord's pitch classes.
map_chord_to_shawzin(notes) ==
    /\ notes # <<>>
    /\ \E chord_pattern \in chordDict : IsPattern(chord_pattern)

\* The notes of the note events of a list.
NotesOf(evs) ==
    LET only == SelectSeq(evs, LAMBDA e : e.type = "note")
    IN  [i \in 1..Len(only) |-> only[i].note]

process_chord_events(evs, pol) ==
    LET notes == NotesOf(evs)
    IN  IF Len(evs) <= 1 THEN evs
        ELSE IF Len(notes) <= pol.max_chord_notes
                /\ map_chord_to_shawzin(notes)
        THEN evs
        ELSE IF pol.reduction_mode = "arpeggiate"
        THEN create_arpeggio_events(evs, pol.arpeggio_spread_ms)
        ELSE LET reduced_notes ==
                     reduce_chord(notes, "reduce", pol.max_chord_notes)
             IN  SelectSeq(evs, LAMBDA e : e.type # "note"
                                           \/ InSeq(e.note, reduced_notes))

\* "Recalculate delta times".
RecalculateDeltas(evs) ==
    [i \in 1..Len(evs) |->
        [evs[i] EXCEPT !.delta_sec = IF i = 1 THEN evs[i].time_sec
                                     ELSE evs[i].time_sec
                                          - evs[i - 1].time_sec]]

ChordStart(evs, pol) ==
    /\ ch_events = evs
    /\ policy = pol
    /\ chord_groups = <<>>
    /\ group_index = 1
    /\ processed_groups = <<>>
    /\ processed_events = <<>>
    /\ ch_pc = "input"

\* process_all_chords, up to its loop: "Group simultaneous events".
GroupSimultaneous ==
    /\ ch_pc = "input"
    /\ chord_groups' =
           group_simultaneous(ch_events, policy.simultaneity_threshold)
    /\ ch_pc' = "groups"
    /\ UNCHANGED <<ch_events, policy, group_index, processed_groups,
                   processed_events>>
    /\ UNCHANGED otherThanChord

\* One iteration of the loop over chord_groups.
ProcessGroup ==
    /\ ch_pc = "groups"
    /\ group_index <= Len(chord_groups)
    /\ LET processed_group ==
               process_chord_events(chord_groups[group_index], policy)
       IN  /\ processed_groups' = Append(processed_groups, processed_group)
           /\ processed_events' = processed_events \o processed_group
    /\ group_index' = group_index + 1
    /\ UNCHANGED <<ch_events, policy, chord_groups, ch_pc>>
    /\ UNCHANGED otherThanChord

\* The end of process_all_chords: the sort by time and the delta times.
FinishChords ==
    /\ ch_pc = "groups"
    /\ group_index > Len(chord_groups)
    /\ processed_events' =
           RecalculateDeltas(SortedBy(processed_events,
                                      LAMBDA e : e.time_sec))
    /\ ch_pc' = "done"
    /\ UNCHANGED <<ch_events, policy, chord_groups, group_index,
                   processed_groups>>
    /\ UNCHANGED otherThanChord

NextChords == GroupSimultaneous \/ ProcessGroup \/ FinishChords

\* Event lists: note events over a few pitches, at times 0, 5/6 ms and
\* 100 ms.
MaxChordEvents == 4
MaxChordNotes == 3
ChordPitches == {60, 62, 64, 72}
ChordTimes == {0, 5, 600}

EventLists(pitches, times, n) ==
    ListsUpTo({Event("note", k, t, 0) : k \in pitches, t \in times}, n)

\* Event lists whose times lie 5/6 ms apart: 0, 5/6 ms and 10/6 ms.
MaxChainEvents == 3
ChainPitches == {60, 64}
ChainTimes == {0, 5, 10}

\* ------------------------------------------------------------------------
\* mapper.py
\* ------------------------------------------------------------------------

scaleModulo == <<36, 36, 12, 24, 36, 24, 36, 36, 36>>

\* The symbols of the indices 0..11 of every scale of scaleDict.
scale_symbols ==
    <<"1", "q", "a", "z", "2", "w", "s", "x", "3", "e", "d", "c">>

\* scaleDict: scale id 1..9 -> (index -> symbol); the index i of every
\* scale carries the symbol of i % 12, and scale id has scaleModulo[id - 1]
\* indices.
scaleDict ==
    [id \in 1..9 |->
        [i \in 0..(scaleModulo[id] - 1) |-> scale_symbols[(i % 12) + 1]]]

\* MappingSettings' default octave_range, and base_octave's default.
DefaultOctaveRange == <<-2, 3>>
base_octave == 4
max_deviation == 2

\* A variant: a note is added again when a later index gives it again.
NotSeen_always(midi_note, seen_notes) == TRUE

\* midi_note not in seen_notes
NotSeen(midi_note, seen_notes) == ~(midi_note \in seen_notes)

\* A variant: an index of the scale is a distance from the octave's C.
TableCandidates_unfolded(scale_id, min_octave, max_octave) ==
    LET scale_length == scaleModulo[scale_id]
        count == IF max_octave < min_octave THEN 0
                 ELSE (max_octave - min_octave + 1) * scale_length
    IN  ListOf([k \in 1..count |->
                   LET octave == min_octave + ((k - 1) \div scale_length)
                       char_idx == (k - 1) % scale_length
                   IN  <<octave * 12 + char_idx,
                         scaleDict[scale_id][char_idx]>>],
               count)

\* build_playable_table's two loops, octave in min_octave..max_octave and
\* char_idx in range(scale_length), as the list of the (midi_note, char)
\* they compute, in the order they compute them.
TableCandidates(scale_id, min_octave, max_octave) ==
    LET scale_length == scaleModulo[scale_id]
        count == IF max_octave < min_octave THEN 0
                 ELSE (max_octave - min_octave + 1) * scale_length
    IN  ListOf([k \in 1..count |->
                   LET octave == min_octave + ((k - 1) \div scale_length)
                       char_idx == (k - 1) % scale_length
                   IN  <<octave * 12 + (char_idx % 12),
                         scaleDict[scale_id][char_idx]>>],
               count)

\* The candidates the loops append to playable_table: those in the MIDI
\* range that are not in seen_notes, the notes appended before.
TableLoop(scale_id, min_octave, max_octave) ==
    LET cand == TableCandidates(scale_id, min_octave, max_octave)
        valid(k) == 0 <= cand[k][1] /\ cand[k][1] <= 127
        seen_notes(k) == {cand[j][1] : j \in {j \in 1..(k - 1) : valid(j)}}
        kept == SelectSeq([k \in 1..Len(cand) |-> <<k, cand[k]>>],
                          LAMBDA x : /\ valid(x[1])
                                     /\ NotSeen(x[2][1], seen_notes(x[1])))
    IN  ListOf([i \in 1..Len(kept) |-> kept[i][2]], Len(kept))

\* scale_id in scaleDict
ValidScale(scale_id) == scale_id \in DOMAIN scaleDict

\* Returns the table, or raises ValueError for an unknown scale id.
build_playable_table(scale_id, octave_range) ==
    IF ~ValidScale(scale_id) THEN [error |-> TRUE, table |-> <<>>]
    ELSE [error |-> FALSE,
          table |->
              SortedBy(TableLoop(scale_id,
                                 base_octave + octave_range[1],
                                 base_octave + octave_range[2]),
                       LAMBDA x : x[1])]

\* A variant: the last entry that is not above the source pitch, or the
\* first entry when every entry is above it.
NearestIndex_below(note, table) ==
    CHOOSE i \in 1..Len(table) :
        \/ /\ table[i][1] <= note
           /\ \A j \in 1..Len(table) : table[j][1] <= note => j <= i
        \/ /\ \A k \in 1..Len(table) : table[k][1] > note
           /\ i = 1

\* The index the scan of map_note_to_shawzin ends with: the first entry at
\* the least distance.
NearestIndex(note, table) ==
    LET distance == ListOf([i \in 1..Len(table) |->
                               Abs(table[i][1] - note)], Len(table))
        min_distance == CHOOSE d \in {distance[i] : i \in 1..Len(table)} :
                            \A i \in 1..Len(table) : d <= distance[i]
    IN  CHOOSE i \in 1..Len(table) :
            /\ distance[i] = min_distance
            /\ \A j \in 1..(i - 1) : distance[j] # min_distance

\* Returns (char, nearest_midi, octave_shift), or raises ValueError for an
\* empty table.
map_note_to_shawzin(note, table) ==
    IF table = <<>>
    THEN [error |-> TRUE, char |-> "", midi |-> 0, octave_shift |-> 0]
    ELSE LET best == table[NearestIndex(note, table)]
             d == best[1] - note
         IN  [error |-> FALSE, char |-> best[2], midi |-> best[1],
              octave_shift |->
                  (d \div 12) + (IF d % 12 > 6 THEN 1
                                 ELSE IF d % 12 < -6 THEN -1 ELSE 0)]

\* analyze_note_coverage for a non-empty note list and a non-empty table:
\* the number of covered notes and the total deviation (coverage and
\* avg_deviation are these divided by len(notes)).
analyze_note_coverage(notes, table) ==
    LET deviation(i) ==
            Abs(map_note_to_shawzin(notes[i], table).midi - notes[i])
        RECURSIVE Total(_)
        Total(i) == IF i = 0 THEN 0 ELSE Total(i - 1) + deviation(i)
    IN  [covered |-> Cardinality({i \in 1..Len(notes) :
                                     deviation(i) <= max_deviation}),
         total |-> Total(Len(notes))]

RECURSIVE BestScaleLoop(_, _, _, _, _)
\* find_best_scale_for_notes' loop.  The score coverage - avg_deviation / 12
\* is compared as the integer 12 * covered - total, its multiple by
\* 12 * len(notes); an empty table makes map_note_to_shawzin raise and the
\* scale is skipped.
BestScaleLoop(notes, octave_range, scale_id, best_scale, best_score) ==
    IF scale_id > 9 THEN best_scale
    ELSE LET table == build_playable_table(scale_id, octave_range).table
             analysis == analyze_note_coverage(notes, table)
             score == 12 * analysis.covered - analysis.total
         IN  IF table # <<>> /\ score > best_score
             THEN BestScaleLoop(notes, octave_range, scale_id + 1, scale_id,
                                score)
             ELSE BestScaleLoop(notes, octave_range, scale_id + 1,
                                best_scale, best_score)

find_best_scale_for_notes(notes, octave_range) ==
    IF notes = <<>> THEN 2
    ELSE BestScaleLoop(notes, octave_range, 1, 2, 0 - 12 * Len(notes))

\* ShawzinNote with all its fields.
MappedNote(character, time_sec, duration_sec, original_midi, mapped_midi, scale_id, octave_shift) ==
    [character |-> character, time_sec |-> time_sec,
     duration_sec |-> duration_sec, original_midi |-> original_midi,
     mapped_midi |-> mapped_midi, scale_id |-> scale_id,
     octave_shift |-> octave_shift]

\* map_events_to_shawzin_events: one ShawzinNote, of scale id 1, per note
\* event; ValueError when a note meets an empty table.  (The mapping cache
\* returns what map_note_to_shawzin returned for the same note.)
map_events_to_shawzin_events(evs, table) ==
    LET note_events == SelectSeq(evs, LAMBDA e : e.type = "note")
    IN  IF note_events # <<>> /\ table = <<>>
        THEN [error |-> TRUE, notes |-> <<>>]
        ELSE [error |-> FALSE,
              notes |->
                  [i \in 1..Len(note_events) |->
                      LET e == note_events[i]
                          m == map_note_to_shawzin(e.note, table)
                      IN  MappedNote(m.char, e.time_sec, e.delta_sec, e.note,
                                     m.midi, 1, m.octave_shift)]]

\* The value None of an optional scale id.
None == -1

\* ShawzinMapper.playable_tables is a list of <<scale_id, table>> in the
\* order of insertion: scale_id in self.playable_tables, and
\* self.playable_tables[scale_id].
Cached(tables, scale_id) == \E i \in 1..Len(tables) : tables[i][1] = scale_id

CachedTable(tables, scale_id) ==
    tables[CHOOSE i \in 1..Len(tables) : tables[i][1] = scale_id][2]

\* A variant: the table of an unknown scale is built as that of scale 2.
get_playable_table_lenient(tables, scale_id, octave_range) ==
    IF Cached(tables, scale_id)
    THEN [error |-> FALSE, tables |-> tables,
          table |-> CachedTable(tables, scale_id)]
    ELSE LET built == build_playable_table(
                          IF ValidScale(scale_id) THEN scale_id ELSE 2,
                          octave_range)
         IN  [error |-> FALSE,
              tables |-> Append(tables, <<scale_id, built.table>>),
              table |-> built.table]

\* ShawzinMapper.get_playable_table: the cache after the call and the table
\* returned, or ValueError.
get_playable_table(tables, scale_id, octave_range) ==
    IF Cached(tables, scale_id)
    THEN [error |-> FALSE, tables |-> tables,
          table |-> CachedTable(tables, scale_id)]
    ELSE LET built == build_playable_table(scale_id, octave_range)
         IN  IF built.error
             THEN [error |-> TRUE, tables |-> tables, table |-> <<>>]
             ELSE [error |-> FALSE,
                   tables |-> Append(tables, <<scale_id, built.table>>),
                   table |-> built.table]

\* A table call at rest / a mapper at rest.
TableStart(sid, range, table, note, at) ==
    /\ bt_scale_id = sid
    /\ bt_octave_range = range
    /\ playable_table = table
    /\ bt_error = FALSE
    /\ note_midi = note
    /\ mapped = [error |-> FALSE, char |-> "", midi |-> 0, octave_shift |-> 0]
    /\ bt_pc = at

\* ShawzinMapper.__init__; calls is the number of calls already made.
MapperStart(range, calls) ==
    /\ mapping_settings = [octave_range |-> range]
    /\ playable_tables = <<>>
    /\ current_scale_id = None
    /\ mp_events = <<>>
    /\ mp_scale_id = None
    /\ shawzin_notes = <<>>
    /\ mp_error = FALSE
    /\ mp_calls = calls

\* A call build_playable_table(bt_scale_id, bt_octave_range).
BuildPlayableTable ==
    /\ bt_pc = "input"
    /\ LET built == build_playable_table(bt_scale_id, bt_octave_range)
       IN  /\ playable_table' = built.table
           /\ bt_error' = built.error
    /\ bt_pc' = "table"
    /\ UNCHANGED <<bt_scale_id, bt_octave_range, note_midi, mapped,
                   mapping_settings, playable_tables, current_scale_id,
                   mp_events, mp_scale_id, shawzin_notes, mp_error, mp_calls>>
    /\ UNCHANGED otherThanMapper

\* A call map_note_to_shawzin(note_midi, playable_table).
MapNoteToShawzin ==
    /\ bt_pc = "table"
    /\ ~bt_error
    /\ mapped' = map_note_to_shawzin(note_midi, playable_table)
    /\ bt_pc' = "mapped"
    /\ UNCHANGED <<bt_scale_id, bt_octave_range, playable_table, bt_error,
                   note_midi, mapping_settings, playable_tables,
                   current_scale_id, mp_events, mp_scale_id, shawzin_notes,
                   mp_error, mp_calls>>
    /\ UNCHANGED otherThanMapper

MaxMapCalls == 2

\* A call ShawzinMapper.map_events(evs, scale_id); scale_id None selects
\* the scale automatically.
map_events(evs, scale_id) ==
    /\ bt_pc = "off"
    /\ mp_calls < MaxMapCalls
    /\ mp_calls' = mp_calls + 1
    /\ mp_events' = evs
    /\ mp_scale_id' = scale_id
    /\ IF evs = <<>>
       THEN /\ shawzin_notes' = <<>>
            /\ mp_error' = FALSE
            /\ UNCHANGED <<playable_tables, current_scale_id>>
       ELSE LET midi_notes == NotesOf(evs)
                sid == IF scale_id = None
                       THEN find_best_scale_for_notes(
                                midi_notes, mapping_settings.octave_range)
                       ELSE scale_id
                got == get_playable_table(playable_tables, sid,
                                          mapping_settings.octave_range)
                res == map_events_to_shawzin_events(evs, got.table)
            IN  /\ current_scale_id' = sid
                /\ playable_tables' = got.tables
                /\ mp_error' = (got.error \/ res.error)
                /\ shawzin_notes' =
                       IF got.error \/ res.error THEN <<>>
                       ELSE [i \in 1..Len(res.notes) |->
                                [res.notes[i] EXCEPT !.scale_id = sid]]
    /\ UNCHANGED <<bt_scale_id, bt_octave_range, playable_table, bt_error,
                   note_midi, mapped, bt_pc, mapping_settings>>
    /\ UNCHANGED otherThanMapper

\* Inputs: scale ids in and around 1..9, octave ranges that reach below
\* pitch 0, above pitch 127 and that are empty, tables with gaps, and source
\* pitches inside, between and outside the entries.
ScaleIds == 0..10
OctaveRanges == {<<-2, 3>>, <<3, 6>>, <<0, 0>>, <<-5, -4>>, <<6, 7>>,
                 <<1, 0>>}
GivenTables ==
    {<<(<<60, "1">>)>>,
     <<(<<60, "1">>), (<<64, "2">>), (<<67, "x">>)>>,
     <<(<<48, "1">>), (<<50, "a">>), (<<55, "x">>), (<<72, "1">>)>>}
SourcePitches == {0, 23, 47, 49, 52, 53, 60, 62, 64, 66, 70, 96, 127}
MapperScaleIds == {None, 0, 2, 9, 10}
MapperPitches == {50, 127}
MapperRanges == {<<0, 0>>, <<1, 0>>}
BuildPitches == {0, 60, 127}
MaxMapEvents == 2

NextMapper ==
    \/ BuildPlayableTable
    \/ MapNoteToShawzin
    \/ \E evs \in EventLists(MapperPitches, {0}, MaxMapEvents),
          sid \in MapperScaleIds : map_events(evs, sid)

\* ------------------------------------------------------------------------
\* Python's float: IEEE 754 binary64 arithmetic, round to nearest, ties to
\* even.  A float is [s, m, e] and stands for s * m * 2^e, where the
\* significand m is a natural number of exactly 53 bits, or zero.  Natural
\* numbers beyond the range of the model checker's integers are lists of
\* limbs, least significant first, without leading zero limbs.  Exponents
\* stay far inside binary64's range for the values of this model, so that
\* overflow, subnormal numbers, infinities and NaN do not occur; the sign
\* of zero is not kept.
\* ------------------------------------------------------------------------

LimbBase == 32768
LimbBits == 15
Precision == 53

\* 2^n, for n < LimbBits.
Pow2(n) ==
    <<1, 2, 4, 8, 16, 32, 64, 128, 256, 512, 1024, 2048, 4096, 8192,
      16384>>[n + 1]

\* The number of bits of a limb.
BitsOf(n) == Cardinality({k \in 0..(LimbBits - 1) : Pow2(k) <= n})

\* The list without its zero limbs at the high end.
Trim(a) ==
    LET used == {i \in 1..Len(a) : a[i] # 0}
    IN  IF used = {} THEN <<>>
        ELSE SubSeq(a, 1, CHOOSE i \in used : \A j \in used : j <= i)

\* An integer of the model checker as a list of limbs, and back.
BigOf(n) ==
    Trim(<<n % LimbBase, (n \div LimbBase) % LimbBase,
           n \div (LimbBase * LimbBase)>>)

Limb(a, i) == IF i <= Len(a) THEN a[i] ELSE 0

IntOf(a) == Limb(a, 1) + LimbBase * (Limb(a, 2) + LimbBase * Limb(a, 3))

BigBits(a) ==
    IF a = <<>> THEN 0 ELSE LimbBits * (Len(a) - 1) + BitsOf(a[Len(a)])

\* Bit i of a, bit 0 being the least significant.
BigBit(a, i) == (Limb(a, i \div LimbBits + 1) \div Pow2(i % LimbBits)) % 2

\* -1, 0 or 1 as a < b, a = b or a > b.
BigCmp(a, b) ==
    IF Len(a) < Len(b) THEN -1
    ELSE IF Len(a) > Len(b) THEN 1
    ELSE LET differ == {i \in 1..Len(a) : a[i] # b[i]}
         IN  IF differ = {} THEN 0
             ELSE LET i == CHOOSE k \in differ : \A j \in differ : j <= k
                  IN  IF a[i] < b[i] THEN -1 ELSE 1

RECURSIVE AddLoop(_, _, _, _)
AddLoop(a, b, i, carry) ==
    IF i > Len(a) /\ i > Len(b)
    THEN IF carry = 0 THEN <<>> ELSE <<carry>>
    ELSE LET sum == Limb(a, i) + Limb(b, i) + carry
         IN  <<sum % LimbBase>> \o AddLoop(a, b, i + 1, sum \div LimbBase)

BigAdd(a, b) == AddLoop(a, b, 1, 0)

RECURSIVE SubLoop(_, _, _, _)
SubLoop(a, b, i, borrow) ==
    IF i > Len(a) THEN <<>>
    ELSE LET diff == a[i] - Limb(b, i) - borrow
         IN  <<diff % LimbBase>>
                 \o SubLoop(a, b, i + 1, IF diff < 0 THEN 1 ELSE 0)

\* a - b, for a >= b.
BigSub(a, b) == Trim(SubLoop(a, b, 1, 0))

RECURSIVE MulSmallLoop(_, _, _, _)
MulSmallLoop(a, k, i, carry) ==
    IF i > Len(a) THEN IF carry = 0 THEN <<>> ELSE <<carry>>
    ELSE LET prod == a[i] * k + carry
         IN  <<prod % LimbBase>>
                 \o MulSmallLoop(a, k, i + 1, prod \div LimbBase)

\* a * k, for 0 <= k < LimbBase.
BigMulSmall(a, k) == Trim(MulSmallLoop(a, k, 1, 0))

Zeros(n) == SubSeq([i \in 1..n |-> 0], 1, n)

RECURSIVE BigMul(_, _)
BigMul(a, b) ==
    IF a = <<>> \/ b = <<>> THEN <<>>
    ELSE BigAdd(BigMulSmall(a, b[1]), Trim(<<0>> \o BigMul(a, Tail(b))))

\* a * 2^n.
BigShl(a, n) ==
    IF a = <<>> THEN <<>>
    ELSE Zeros(n \div LimbBits) \o BigMulSmall(a, Pow2(n % LimbBits))

RECURSIVE DivSmallLoop(_, _, _, _)
DivSmallLoop(a, k, i, rem) ==
    IF i = 0 THEN <<>>
    ELSE LET cur == rem * LimbBase + a[i]
         IN  IF cur < k THEN DivSmallLoop(a, k, i - 1, cur) \o <<0>>
             ELSE DivSmallLoop(a, k, i - 1, cur % k) \o <<cur \div k>>

\* The limbs from (n \div LimbBits) + 1 on.
HighLimbs(a, n) == SubSeq(a, n \div LimbBits + 1, Len(a))

\* a \div 2^n.
BigShr(a, n) ==
    IF n \div LimbBits >= Len(a) THEN <<>>
    ELSE Trim(DivSmallLoop(HighLimbs(a, n), Pow2(n % LimbBits),
                           Len(a) - n \div LimbBits, 0))

\* a % 2^n.
BigLow(a, n) ==
    IF n \div LimbBits >= Len(a) THEN a
    ELSE Trim(SubSeq(a, 1, n \div LimbBits)
              \o <<a[n \div LimbBits + 1] % Pow2(n % LimbBits)>>)

\* The largest digit with digit * b <= cur, looked for downwards from a
\* guess that is not below it.
RECURSIVE DigitFrom(_, _, _)
DigitFrom(cur, b, guess) ==
    IF BigCmp(BigMulSmall(b, guess), cur) <= 0 THEN guess
    ELSE DigitFrom(cur, b, guess - 1)

\* The two highest limbs of cur that face the highest limb of b, divided by
\* it, and at most the largest limb.
GuessDigit(cur, b) ==
    LET top == Limb(cur, Len(b) + 1) * LimbBase + Limb(cur, Len(b))
    IN  IF top \div b[Len(b)] < LimbBase THEN top \div b[Len(b)]
        ELSE LimbBase - 1

\* A quotient and remainder with one more quotient digit at the low end.
WithDigit(rest, digit) == <<rest[1] \o <<digit>>, rest[2]>>

\* Long division of the limbs i, i - 1, ..., 1 of a by b, whose highest
\* limb has its highest bit set, with the remainder so far:
\* <<quotient, remainder>>.
RECURSIVE DivLimbs(_, _, _, _)

\* The step of DivLimbs for the digit found.
DivDigit(a, b, i, cur, digit) ==
    WithDigit(DivLimbs(a, b, i - 1, BigSub(cur, BigMulSmall(b, digit))),
              digit)

\* The step of DivLimbs for the remainder so far extended by limb i: the
\* digit is 0 if that is below b.
DivStep(a, b, i, cur) ==
    IF BigCmp(cur, b) < 0 THEN WithDigit(DivLimbs(a, b, i - 1, cur), 0)
    ELSE DivDigit(a, b, i, cur, DigitFrom(cur, b, GuessDigit(cur, b)))

DivLimbs(a, b, i, rem) ==
    IF i = 0 THEN <<<<>>, rem>>
    ELSE DivStep(a, b, i, Trim(<<a[i]>> \o rem))

\* The quotient and remainder of a division scaled by 2^shift.
Unscaled(qr, shift) == <<Trim(qr[1]), BigShr(qr[2], shift)>>

\* The division of scaled by divisor, the skip highest limbs of scaled being
\* the first remainder.
DivFrom(scaled, divisor, shift, skip) ==
    Unscaled(DivLimbs(scaled, divisor, Len(scaled) - skip,
                      SubSeq(scaled, Len(scaled) - skip + 1, Len(scaled))),
             shift)

DivNormal(scaled, divisor, shift) ==
    DivFrom(scaled, divisor, shift,
            IF Len(scaled) < Len(divisor) THEN Len(scaled)
            ELSE Len(divisor) - 1)

\* <<a \div b, a % b>>, for b > 0: both are scaled so that the highest limb
\* of the divisor has its highest bit set.
DivScaled(a, b, shift) == DivNormal(BigShl(a, shift), BigShl(b, shift), shift)

BigDivMod(a, b) == DivScaled(a, b, LimbBits - BitsOf(b[Len(b)]))

Zero == [s |-> 1, m |-> <<>>, e |-> 0]

IsZero(x) == x.m = <<>>

\* s * m * 2^exp for m of Precision bits, or of one more with a zero as the
\* lowest.
Normal(s, m, exp) ==
    IF BigBits(m) > Precision
    THEN [s |-> s, m |-> BigShr(m, 1), e |-> exp + 1]
    ELSE [s |-> s, m |-> m, e |-> exp]

\* kept, or kept + 1 when the part dropped (low, then a remainder) is above
\* half, or is half and kept is odd.
RoundKept(s, kept, low, half, rem, exp) ==
    Normal(s,
           IF \/ low > half
              \/ low = half /\ rem # <<>>
              \/ low = half /\ rem = <<>> /\ BigBit(kept, 0) = 1
           THEN BigAdd(kept, <<1>>) ELSE kept,
           exp)

RoundDrop(s, qr, drop, exp) ==
    RoundKept(s, BigShr(qr[1], drop), IntOf(BigLow(qr[1], drop)),
              Pow2(drop - 1), qr[2], exp + drop)

\* The float nearest to s * (qr[1] + a fraction that is zero exactly if
\* qr[2] is) * 2^exp, for qr[1] of more than Precision bits.
RoundQuotient(s, qr, exp) ==
    RoundDrop(s, qr, BigBits(qr[1]) - Precision, exp)

\* <<quotient, remainder>> of num * 2^k by den.
ScaledQuotient(num, den, k) ==
    IF den = <<1>>
    THEN IF k >= 0 THEN <<BigShl(num, k), <<>> >>
         ELSE <<BigShr(num, 0 - k), BigLow(num, 0 - k)>>
    ELSE BigDivMod(IF k >= 0 THEN BigShl(num, k) ELSE num,
                   IF k >= 0 THEN den ELSE BigShl(den, 0 - k))

RoundScaled(s, num, den, exp, k) ==
    RoundQuotient(s, ScaledQuotient(num, den, k), exp - k)

\* The float nearest to s * (num / den) * 2^exp, ties to even; num and den
\* are natural numbers, den > 0.
RoundToFloat(s, num, den, exp) ==
    IF num = <<>> THEN Zero
    ELSE RoundScaled(s, num, den, exp,
                     Precision + 2 - (BigBits(num) - BigBits(den)))

\* The float a literal n/d denotes, and float(n) of an int n.
Literal(n, d) ==
    IF n = 0 THEN Zero
    ELSE RoundToFloat(IF n < 0 THEN -1 ELSE 1,
                      BigOf(IF n < 0 THEN 0 - n ELSE n), BigOf(d), 0)
Float(n) == Literal(n, 1)

\* x * y and x / y of floats.
FMul(x, y) ==
    IF IsZero(x) \/ IsZero(y) THEN Zero
    ELSE RoundToFloat(x.s * y.s, BigMul(x.m, y.m), <<1>>, x.e + y.e)
FDiv(x, y) ==
    IF IsZero(x) \/ IsZero(y) THEN Zero
    ELSE RoundToFloat(x.s * y.s, x.m, y.m, x.e - y.e)

\* -1, 0 or 1 as |x| < |y|, |x| = |y| or |x| > |y|.
MagCmp(x, y) ==
    IF IsZero(x) \/ IsZero(y)
    THEN IF IsZero(x) /\ IsZero(y) THEN 0 ELSE IF IsZero(x) THEN -1 ELSE 1
    ELSE IF x.e < y.e THEN -1
    ELSE IF x.e > y.e THEN 1
    ELSE BigCmp(x.m, y.m)

\* -1, 0 or 1 as x < y, x = y or x > y.
FCmp(x, y) ==
    IF IsZero(x) /\ IsZero(y) THEN 0
    ELSE IF IsZero(x) THEN 0 - y.s
    ELSE IF IsZero(y) THEN x.s
    ELSE IF x.s # y.s THEN x.s
    ELSE x.s * MagCmp(x, y)

FNeg(x) == IF IsZero(x) THEN x ELSE [x EXCEPT !.s = 0 - x.s]

\* x + y for the significands xm and ym of x and y at the exponent exp.
AddAligned(x, y, xm, ym, exp) ==
    RoundToFloat(IF x.s = y.s \/ BigCmp(xm, ym) >= 0 THEN x.s ELSE y.s,
                 IF x.s = y.s THEN BigAdd(xm, ym)
                 ELSE IF BigCmp(xm, ym) >= 0 THEN BigSub(xm, ym)
                 ELSE BigSub(ym, xm),
                 <<1>>, exp)

AddAt(x, y, exp) ==
    AddAligned(x, y, BigShl(x.m, x.e - exp), BigShl(y.m, y.e - exp), exp)

\* x + y and x - y of floats.
FAdd(x, y) ==
    IF IsZero(x) THEN y
    ELSE IF IsZero(y) THEN x
    ELSE AddAt(x, y, IF x.e < y.e THEN x.e ELSE y.e)
FSub(x, y) == FAdd(x, FNeg(y))

FMax(x, y) == IF FCmp(y, x) > 0 THEN y ELSE x
FMin(x, y) == IF FCmp(y, x) < 0 THEN y ELSE x

\* int(x): x truncated towards zero.
Trunc(x) ==
    IF IsZero(x) THEN 0
    ELSE x.s * IntOf(IF x.e >= 0 THEN BigShl(x.m, x.e)
                     ELSE BigShr(x.m, 0 - x.e))

\* whole, or whole + 1 when the fraction compares to a half as cmp says and
\* is above it, or is a half and whole is odd.
NearestEven(whole, cmp) ==
    IF cmp > 0 \/ (cmp = 0 /\ whole % 2 = 1) THEN whole + 1 ELSE whole

\* round(x): the integer nearest to x, ties to even.
RoundHalfEven(x) ==
    IF IsZero(x) THEN 0
    ELSE IF x.e >= 0 THEN x.s * IntOf(BigShl(x.m, x.e))
    ELSE x.s * NearestEven(IntOf(BigShr(x.m, 0 - x.e)),
                           BigCmp(BigLow(x.m, 0 - x.e),
                                  BigShl(<<1>>, 0 - x.e - 1)))

\* ------------------------------------------------------------------------
\* quantize.py.  Times are floats; a tempo_bpm argument is an integer
\* number of beats per minute or None, humanize_ms an integer number of
\* milliseconds or None.
\* ------------------------------------------------------------------------

\* QuantizeSettings; None <= 0 stands for the absent humanize_ms, which
\* add_humanization treats like a value <= 0.
QuantizeSettings(subdivision, quantize_mode, humanize_ms, preserve_timing) ==
    [subdivision |-> subdivision, mode |-> quantize_mode,
     humanize_ms |-> humanize_ms, time_signature |-> <<4, 4>>,
     preserve_timing |-> preserve_timing]

DefaultQuantizeSettings == QuantizeSettings(16, "nearest", None, TRUE)

seconds_to_beats(seconds, tempo) ==
    LET seconds_per_beat == FDiv(Float(tempo), Float(1000000))
    IN  FDiv(seconds, seconds_per_beat)

beats_to_seconds(beats, tempo) ==
    LET seconds_per_beat == FDiv(Float(tempo), Float(1000000))
    IN  FMul(beats, seconds_per_beat)

\* int(ratio) in 'floor' mode, round(ratio) otherwise.
GridIndex(ratio, quantize_mode) ==
    IF quantize_mode = "floor" THEN Trunc(ratio) ELSE RoundHalfEven(ratio)

\* The two branches of quantize_beat_to_grid.
GridBeat(beat, beats_per_subdivision, quantize_mode) ==
    FMul(Float(GridIndex(FDiv(beat, beats_per_subdivision), quantize_mode)),
         beats_per_subdivision)

quantize_beat_to_grid(beat, subdivision, quantize_mode) ==
    GridBeat(beat, FDiv(Float(4), Float(subdivision)), quantize_mode)

\* add_humanization; uniform is what random.uniform(-humanize_ms,
\* humanize_ms) drew, in ms.
add_humanization(time_sec, humanize_ms, uniform) ==
    IF humanize_ms <= 0 THEN time_sec
    ELSE LET jitter_sec == FDiv(Float(uniform), Float(1000))
         IN  FMax(Zero, FAdd(time_sec, jitter_sec))

\* The place of each element of a stable ascending sort of a list with the
\* given float keys.
FloatRankOf(keys) ==
    ListOf([i \in 1..Len(keys) |->
               Cardinality({j \in 1..Len(keys) :
                               \/ FCmp(keys[j], keys[i]) < 0
                               \/ FCmp(keys[j], keys[i]) = 0 /\ j < i}) + 1],
           Len(keys))

\* list.sort(key=lambda e: e.time_sec)
SortedByTime(evs) ==
    Permute(evs, FloatRankOf(ListOf([i \in 1..Len(evs) |-> evs[i].time_sec],
                                    Len(evs))))

\* The loop of quantize_events that recalculates the delta times.
FloatDeltas(evs) ==
    ListOf([i \in 1..Len(evs) |->
               [evs[i] EXCEPT !.delta_sec =
                    IF i = 1 THEN evs[i].time_sec
                    ELSE FSub(evs[i].time_sec, evs[i - 1].time_sec)]],
           Len(evs))

\* The end of quantize_events: the sorted events, with their delta times
\* recalculated if preserve_timing is set.
WithDeltas(sorted_events, preserve_timing) ==
    IF preserve_timing THEN FloatDeltas(sorted_events) ELSE sorted_events

\* quantize_events; draws[i] is what random.uniform draws for the i-th
\* event, in ms.
quantize_events(evs, tempo, qsettings, draws) ==
    IF evs = <<>> THEN <<>>
    ELSE LET moved ==
                 ListOf([i \in 1..Len(evs) |->
                     LET beat_time == seconds_to_beats(evs[i].time_sec, tempo)
                         quantized_beat ==
                             quantize_beat_to_grid(beat_time,
                                                   qsettings.subdivision,
                                                   qsettings.mode)
                         quantized_seconds ==
                             beats_to_seconds(quantized_beat, tempo)
                         final_time ==
                             add_humanization(quantized_seconds,
                                              qsettings.humanize_ms, draws[i])
                     IN  [evs[i] EXCEPT !.time_sec = final_time]], Len(evs))
         IN  WithDeltas(SortedByTime(moved), qsettings.preserve_timing)

min_tempo == 60
max_tempo == 200
DefaultTempo == 120

\* The float nearest to s * whole / 100, whole being rounded up first when
\* the fraction beside it compares to a half as cmp says and is above it, or
\* is a half and whole is odd.
NearestHundredth(s, whole, cmp) ==
    RoundToFloat(s,
                 IF cmp > 0 \/ (cmp = 0 /\ BigBit(whole, 0) = 1)
                 THEN BigAdd(whole, <<1>>) ELSE whole,
                 <<100>>, 0)

\* The same for s * hundredfold * 2^e.
HundredthsOf(s, hundredfold, e) ==
    NearestHundredth(s,
                     IF e >= 0 THEN BigShl(hundredfold, e)
                     ELSE BigShr(hundredfold, 0 - e),
                     IF e >= 0 THEN -1
                     ELSE BigCmp(BigLow(hundredfold, 0 - e),
                                 BigShl(<<1>>, 0 - e - 1)))

\* round(x, 2) of a float x >= 0: the float nearest to the decimal with two
\* places nearest to x, ties to even.
Round2(x) ==
    IF IsZero(x) THEN Zero ELSE HundredthsOf(x.s, BigMulSmall(x.m, 100), x.e)

\* An interval of detect_tempo_from_events, rounded, if it is above 50 ms.
RoundedInterval(interval) ==
    IF FCmp(interval, Literal(5, 100)) > 0 THEN <<Round2(interval)>>
    ELSE <<>>

\* The intervals of detect_tempo_from_events, rounded.
RECURSIVE RoundedIntervals(_, _)
RoundedIntervals(evs, i) ==
    IF i > Len(evs) THEN <<>>
    ELSE RoundedInterval(FSub(evs[i].time_sec, evs[i - 1].time_sec))
             \o RoundedIntervals(evs, i + 1)

\* Counter(seq).most_common(1)[0][0]: the first of the most frequent.
MostCommon(seq) ==
    LET Count(x) == Cardinality({i \in 1..Len(seq) : seq[i] = x})
        first == CHOOSE i \in 1..Len(seq) :
                     /\ \A j \in 1..Len(seq) : Count(seq[j]) <= Count(seq[i])
                     /\ \A j \in 1..(i - 1) : Count(seq[j]) < Count(seq[i])
    IN  seq[first]

\* The tempo detect_tempo_from_events estimates from the intervals.
TempoOfIntervals(rounded_intervals) ==
    IF rounded_intervals = <<>> THEN Float(DefaultTempo)
    ELSE FMax(Float(min_tempo),
              FMin(Float(max_tempo),
                   FDiv(Float(60), MostCommon(rounded_intervals))))

\* detect_tempo_from_events, with its default min_tempo and max_tempo.
detect_tempo_from_events(evs) ==
    IF Len(evs) < 2 THEN Float(DefaultTempo)
    ELSE TempoOfIntervals(RoundedIntervals(evs, 2))

\* Quantizer.quantize once the tempo is known: [last_tempo, events].
QuantizeAt(qsettings, evs, tempo_bpm, draws) ==
    [last_tempo |-> tempo_bpm,
     events |-> quantize_events(evs, Trunc(FDiv(Float(60000000), tempo_bpm)),
                                qsettings, draws)]

\* Quantizer.quantize: [last_tempo, events].
quantize(qsettings, last, evs, bpm, draws) ==
    IF evs = <<>> THEN [last_tempo |-> last, events |-> <<>>]
    ELSE QuantizeAt(qsettings, evs,
                    IF bpm = None THEN detect_tempo_from_events(evs)
                    ELSE Float(bpm),
                    draws)

QuantizerStart(qsettings, evs, bpm, tempo, via, at) ==
    /\ qz_settings = qsettings
    /\ last_tempo = Float(DefaultTempo)
    /\ qz_events = evs
    /\ qz_tempo_bpm = bpm
    /\ qz_tempo_us = tempo
    /\ qz_via = via
    /\ quantized_events = <<>>
    /\ estimated_tempo = Float(DefaultTempo)
    /\ qz_pc = at

\* What random.uniform may draw for an event list, in ms.
Draws(qsettings, n) ==
    IF qsettings.humanize_ms <= 0 THEN {[i \in 1..n |-> 0]}
    ELSE [1..n -> {0 - qsettings.humanize_ms, qsettings.humanize_ms}]

\* One call of quantize_events, on the input or on what the call before
\* returned.
QuantizeEvents ==
    /\ qz_via = "quantize_events"
    /\ qz_pc \in {"input", "once"}
    /\ LET evs == IF qz_pc = "input" THEN qz_events ELSE quantized_events
       IN  /\ qz_events' = evs
           /\ \E draws \in Draws(qz_settings, Len(evs)) :
                  quantized_events'
                      = quantize_events(evs, qz_tempo_us, qz_settings, draws)
    /\ qz_pc' = IF qz_pc = "input" THEN "once" ELSE "twice"
    /\ UNCHANGED <<qz_settings, last_tempo, qz_tempo_bpm, qz_tempo_us,
                   qz_via, estimated_tempo>>
    /\ UNCHANGED otherThanQuantizer

\* One call of Quantizer.quantize, likewise.
QuantizerQuantize ==
    /\ qz_via = "Quantizer.quantize"
    /\ qz_pc \in {"input", "once"}
    /\ LET evs == IF qz_pc = "input" THEN qz_events ELSE quantized_events
       IN  /\ qz_events' = evs
           /\ \E draws \in Draws(qz_settings, Len(evs)) :
                  \E r \in {quantize(qz_settings, last_tempo, evs,
                                     qz_tempo_bpm, draws)} :
                      /\ quantized_events' = r.events
                      /\ last_tempo' = r.last_tempo
    /\ qz_pc' = IF qz_pc = "input" THEN "once" ELSE "twice"
    /\ UNCHANGED <<qz_settings, qz_tempo_bpm, qz_tempo_us, qz_via,
                   estimated_tempo>>
    /\ UNCHANGED otherThanQuantizer

\* One call of detect_tempo_from_events.
DetectTempo ==
    /\ qz_via = "detect_tempo_from_events"
    /\ qz_pc = "input"
    /\ estimated_tempo' = detect_tempo_from_events(qz_events)
    /\ qz_pc' = "tempo"
    /\ UNCHANGED <<qz_settings, last_tempo, qz_events, qz_tempo_bpm,
                   qz_tempo_us, qz_via, quantized_events>>
    /\ UNCHANGED otherThanQuantizer

NextQuantizer == QuantizeEvents \/ QuantizerQuantize \/ DetectTempo

\* Inputs: event times in seconds, tempos, settings.
MaxQuantEvents == 2
QuantTimes == {Zero, Literal(1, 2), Literal(47, 10), Literal(186, 10)}
QuantPitches == {60}
QuantTempos == {500000, 600000}
QuantBpms == {None, 100, 120}
QuantizerSettings ==
    {DefaultQuantizeSettings, QuantizeSettings(16, "floor", None, TRUE)}
QuantSettings ==
    {QuantizeSettings(sub, m, None, TRUE) :
         sub \in {4, 16}, m \in {"nearest", "floor"}}
    \cup {QuantizeSettings(16, "nearest", 5, TRUE),
          QuantizeSettings(16, "floor", None, FALSE)}
QuantEventLists ==
    ListsUpTo({Event("note", k, t, Zero) : k \in QuantPitches,
                                           t \in QuantTimes},
              MaxQuantEvents)

\* ------------------------------------------------------------------------
\* midi_io.py: merge_note_events.  Times are in ms.
\* ------------------------------------------------------------------------

\* "Default short duration": 0.1 s.
default_duration == 100

\* midi_io.Event with the fields merge_note_events reads and writes.
MidiEvent(type, note, time_sec, delta_sec, velocity, channel, track_index) ==
    [type |-> type, note |-> note, time_sec |-> time_sec,
     delta_sec |-> delta_sec, velocity |-> velocity, channel |-> channel,
     track_index |-> track_index]

\* note_key in active_notes
IsActive(active, note_key) ==
    \E i \in 1..Len(active) : active[i][1] = note_key

\* active_notes[note_key] = event: a key already in the dict keeps its place.
WithActive(active, note_key, event) ==
    IF IsActive(active, note_key)
    THEN ListOf([i \in 1..Len(active) |->
                    IF active[i][1] = note_key THEN <<note_key, event>>
                    ELSE active[i]], Len(active))
    ELSE Append(active, <<note_key, event>>)

\* active_notes[note_key] and what active_notes.pop(note_key) leaves.
ActiveEvent(active, note_key) ==
    active[CHOOSE i \in 1..Len(active) : active[i][1] = note_key][2]
WithoutActive(active, note_key) ==
    SelectSeq(active, LAMBDA a : a[1] # note_key)

\* The merged event of a note_on and the note_off that ends it.
MergedEvent(start_event, event) ==
    MidiEvent("note", event.note, start_event.time_sec,
              event.time_sec - start_event.time_sec, start_event.velocity,
              event.channel, start_event.track_index)

\* The merged event of a note_on that never got a note_off.
UnclosedEvent(start_event) ==
    MidiEvent("note", start_event.note, start_event.time_sec,
              default_duration, start_event.velocity, start_event.channel,
              start_event.track_index)

MergeStart(evs, at) ==
    /\ mg_events = evs
    /\ mg_index = 1
    /\ active_notes = <<>>
    /\ merged_events = <<>>
    /\ mg_pc = at

\* One iteration of the loop "for event in events".
MergeEvent ==
    /\ mg_pc = "loop"
    /\ mg_index <= Len(mg_events)
    /\ LET event == mg_events[mg_index]
           note_key == <<event.note, event.channel>>
       IN  IF event.type = "note_on"
           THEN /\ active_notes' = WithActive(active_notes, note_key, event)
                /\ UNCHANGED merged_events
           ELSE IF event.type = "note_off" /\ IsActive(active_notes, note_key)
           THEN /\ active_notes' = WithoutActive(active_notes, note_key)
                /\ merged_events' =
                       Append(merged_events,
                              MergedEvent(ActiveEvent(active_notes, note_key),
                                          event))
           ELSE UNCHANGED <<active_notes, merged_events>>
    /\ mg_index' = mg_index + 1
    /\ UNCHANGED <<mg_events, mg_pc>>
    /\ UNCHANGED otherThanMerge

\* The end of merge_note_events: the notes that never got a note_off, and
\* the sort by time.
CloseActiveNotes ==
    /\ mg_pc = "loop"
    /\ mg_index > Len(mg_events)
    /\ merged_events' =
           SortedBy(merged_events
                        \o ListOf([i \in 1..Len(active_notes) |->
                                      UnclosedEvent(active_notes[i][2])],
                                  Len(active_notes)),
                    LAMBDA e : e.time_sec)
    /\ mg_pc' = "done"
    /\ UNCHANGED <<mg_events, mg_index, active_notes>>
    /\ UNCHANGED otherThanMerge

NextMerge == MergeEvent \/ CloseActiveNotes

\* Streams of note_on and note_off events in chronological order.
MaxMergeEvents == 4
MergeKeys == {<<60, 0>>, <<60, 1>>, <<64, 0>>}
MergeTimes == {0, 250}
MergeStreams ==
    {evs \in ListsUpTo({MidiEvent(type, k[1], t, 0,
                                  IF type = "note_on" THEN 64 ELSE 0, k[2],
                                  0) :
                            type \in {"note_on", "note_off"},
                            k \in MergeKeys, t \in MergeTimes},
                       MaxMergeEvents) :
        \A i \in 2..Len(evs) : evs[i - 1].time_sec <= evs[i].time_sec}

\* ------------------------------------------------------------------------
\* key_detection.py.  Durations, weights, histogram entries and scores are
\* floats; a sum is Python's sum() of 3.11, which adds from left to right.
\* ------------------------------------------------------------------------

\* SCALE_TEMPLATES: scale id 1..9 -> the pitch classes of the scale on C.
SCALE_TEMPLATES ==
    <<{0, 3, 5, 7, 10}, {0, 2, 4, 5, 7, 9, 11}, 0..11,
      {0, 2, 3, 5, 7, 8, 10}, {0, 2, 3, 5, 7, 9, 10},
      {0, 1, 3, 5, 7, 8, 10}, {0, 2, 4, 7, 9}, {0, 2, 5, 7, 9},
      {0, 2, 4, 6, 8, 10}>>

\* An Event with the fields key detection reads.
KeyEvent(note, delta_sec, velocity) ==
    [type |-> "note", note |-> note, delta_sec |-> delta_sec,
     velocity |-> velocity]

\* The literals of score_key and detect_best_scale.
default_velocity == 80
OutOfScalePenalty == Literal(8, 10)
SpecificityFactor == Literal(3, 10)
CompletenessFactor == Literal(2, 10)
DominanceFactor == Literal(1, 10)
UsedThreshold == Literal(1, 100)
TieThreshold == Literal(1, 100)
RootBonus == Literal(2, 10)

\* abs(x) of a float.
FAbs(x) == IF FCmp(x, Zero) < 0 THEN FNeg(x) ELSE x

RECURSIVE FSumFrom(_, _, _)
\* sum(xs) of a list of floats: ((0 + xs[0]) + xs[1]) + ...
FSumFrom(xs, i, acc) ==
    IF i > Len(xs) THEN acc ELSE FSumFrom(xs, i + 1, FAdd(acc, xs[i]))
FSum(xs) == FSumFrom(xs, 1, Zero)

\* "Calculate weight: longer and louder notes have more influence".
NoteWeight(event) ==
    FMul(event.delta_sec,
         FDiv(Float(IF event.velocity > 0 THEN event.velocity
                    ELSE default_velocity), Float(127)))

\* The events the histogram counts.
IsCounted(event) ==
    event.note # None /\ event.type \in {"note_on", "note"}

RECURSIVE HistogramLoop(_, _, _, _)
RECURSIVE AddWeight(_, _, _, _, _)
\* The loop of build_pitch_class_histogram; histogram[pc + 1] is the entry
\* of pitch class pc.
HistogramLoop(evs, i, histogram, total_weight) ==
    IF i > Len(evs)
    THEN [histogram |-> histogram, total_weight |-> total_weight]
    ELSE IF IsCounted(evs[i])
    THEN AddWeight(evs, i, histogram, total_weight, NoteWeight(evs[i]))
    ELSE HistogramLoop(evs, i + 1, histogram, total_weight)
AddWeight(evs, i, histogram, total_weight, weight) ==
    HistogramLoop(evs, i + 1,
                  [histogram EXCEPT
                       ![(evs[i].note % 12) + 1] = FAdd(@, weight)],
                  FAdd(total_weight, weight))

\* "Normalize to probabilities".
Normalized(histogram, total_weight) ==
    IF FCmp(total_weight, Zero) > 0
    THEN ListOf([k \in 1..12 |-> FDiv(histogram[k], total_weight)], 12)
    ELSE histogram

NormalizedLoop(looped) == Normalized(looped.histogram, looped.total_weight)

build_pitch_class_histogram(evs) ==
    NormalizedLoop(HistogramLoop(evs, 1, ListOf([k \in 1..12 |-> Zero], 12),
                                 Zero))

\* Returns the template transposed to the root; the chromatic scale for an
\* unknown scale id.
get_scale_template(scale_id, root) ==
    IF ~(scale_id \in 1..9) THEN 0..11
    ELSE {(k + root) % 12 : k \in SCALE_TEMPLATES[scale_id]}

\* The pitch classes of a set in the order Python iterates it: a set of 5
\* or more numbers of 0..11 is iterated in ascending order.
Iterated(pcs) == SelectSeq([k \in 1..12 |-> k - 1], LAMBDA k : k \in pcs)

\* [histogram[pc] for pc in pcs]
WeightsOf(histogram, pcs) ==
    ListOf([i \in 1..Len(pcs) |-> histogram[pcs[i] + 1]], Len(pcs))

\* scale_weights.sort(reverse=True)
DescendingFloats(xs) ==
    Permute(xs, ListOf([i \in 1..Len(xs) |->
                           Cardinality({j \in 1..Len(xs) :
                                           \/ FCmp(xs[j], xs[i]) > 0
                                           \/ /\ FCmp(xs[j], xs[i]) = 0
                                              /\ j < i}) + 1], Len(xs)))

\* final_score of score_key from its parts.
FinalScore(in_scale, out_of_scale, completeness, top_3_weight, specificity) ==
    FSum(<<FSub(in_scale, FMul(OutOfScalePenalty, out_of_scale)),
           FMul(CompletenessFactor, completeness),
           FMul(DominanceFactor, top_3_weight),
           specificity>>)

\* score_key for the weights of the pitch classes in and out of the scale.
ScoreOfWeights(inside, outside) ==
    FMax(Zero,
         FinalScore(FSum(inside), FSum(outside),
                    FDiv(Float(Cardinality({i \in 1..Len(inside) :
                                 FCmp(inside[i], UsedThreshold) > 0})),
                         Float(Len(inside))),
                    FSum(SubSeq(DescendingFloats(inside), 1, 3)),
                    FMul(FDiv(Float(12 - Len(inside)), Float(12)),
                         SpecificityFactor)))

score_key(histogram, scale_template) ==
    ScoreOfWeights(WeightsOf(histogram, Iterated(scale_template)),
                   WeightsOf(histogram, Iterated((0..11) \ scale_template)))

\* A candidate (score, root, scale_id) of detect_best_scale.
Candidate(score, root, scale_id) ==
    [score |-> score, root |-> root, scale_id |-> scale_id]

\* A variant: the roots are numbered from 1.
ScaleCandidates_from_one(histogram, scale_id) ==
    ListOf([k \in 1..12 |->
               Candidate(score_key(histogram,
                                   get_scale_template(scale_id, k - 1)),
                         k, scale_id)], 12)

\* The candidates of one scale id: the body of "for root in range(12)".
ScaleCandidates(histogram, scale_id) ==
    ListOf([k \in 1..12 |->
               Candidate(score_key(histogram,
                                   get_scale_template(scale_id, k - 1)),
                         k - 1, scale_id)], 12)

\* Whether the tuple a is greater than the tuple b.
Above(a, b) ==
    \/ FCmp(a.score, b.score) > 0
    \/ /\ FCmp(a.score, b.score) = 0
       /\ \/ a.root > b.root
          \/ a.root = b.root /\ a.scale_id > b.scale_id

\* best_candidates.sort(reverse=True)
SortedCandidates(cands) ==
    Permute(cands,
            ListOf([i \in 1..Len(cands) |->
                       Cardinality({j \in 1..Len(cands) :
                                       \/ Above(cands[j], cands[i])
                                       \/ /\ ~Above(cands[i], cands[j])
                                          /\ j < i}) + 1], Len(cands)))

\* best_candidates[0] of the sorted list.
TopCandidate(cands) ==
    cands[CHOOSE i \in 1..Len(cands) :
              \A j \in 1..Len(cands) :
                  \/ Above(cands[i], cands[j])
                  \/ ~Above(cands[j], cands[i]) /\ i <= j]

\* tied_candidates: a filter of the sorted list keeps its order, so it is
\* the sorted list of the candidates that pass the filter.
TiedCandidates(cands, best_score) ==
    SortedCandidates(
        SelectSeq(cands,
                  LAMBDA c : FCmp(FAbs(FSub(c.score, best_score)),
                                  TieThreshold) < 0))

\* A variant: no bonus for the first or last note.
RootEmphasis_plain(histogram, evs, root) ==
    histogram[(root % 12) + 1]

\* root_emphasis of a candidate root: the histogram weight at the root and
\* the "bonus for first/last note being the root".
RootEmphasis(histogram, evs, root) ==
    FSum(<<histogram[(root % 12) + 1]>>
         \o (IF evs # <<>> /\ evs[1].note % 12 = root
             THEN <<RootBonus>> ELSE <<>>)
         \o (IF evs # <<>> /\ evs[Len(evs)].note % 12 = root
             THEN <<RootBonus>> ELSE <<>>))

\* max(tied_candidates, key=...): the first candidate of the greatest key.
MaxByEmphasis(tied, emphasis) ==
    tied[CHOOSE i \in 1..Len(tied) :
             /\ \A j \in 1..Len(tied) : FCmp(emphasis[j], emphasis[i]) <= 0
             /\ \A j \in 1..(i - 1) : FCmp(emphasis[j], emphasis[i]) < 0]

\* "prefer the root that has more emphasis in the melody"
MostEmphasized(histogram, evs, tied) ==
    MaxByEmphasis(tied,
                  ListOf([i \in 1..Len(tied) |->
                             RootEmphasis(histogram, evs, tied[i].root)],
                         Len(tied)))

scale_preferences == <<2, 4, 5, 6, 7, 1, 3, 8, 9>>

\* "For larger ties, use scale preferences": the first tied candidate of the
\* first preferred scale that has one, else the first tied candidate.
MostPreferred(tied) ==
    LET has(p) == \E i \in 1..Len(tied) :
                      tied[i].scale_id = scale_preferences[p]
    IN  IF \E p \in 1..Len(scale_preferences) : has(p)
        THEN LET p == CHOOSE q \in 1..Len(scale_preferences) :
                          has(q) /\ \A r \in 1..(q - 1) : ~has(r)
             IN  tied[CHOOSE i \in 1..Len(tied) :
                          /\ tied[i].scale_id = scale_preferences[p]
                          /\ \A j \in 1..(i - 1) :
                                 tied[j].scale_id # scale_preferences[p]]
        ELSE tied[1]

max_modal_ties == 4

\* The tie-breaking of detect_best_scale.
BreakTie(histogram, evs, tied, top) ==
    IF Len(tied) > 1
    THEN IF Len(tied) <= max_modal_ties
         THEN MostEmphasized(histogram, evs, tied)
         ELSE MostPreferred(tied)
    ELSE top

\* What detect_best_scale returns: (root, scale_id, best_score).
Selected(chosen, top) ==
    [root |-> chosen.root, scale_id |-> chosen.scale_id, score |-> top.score]

SelectFrom(histogram, evs, cands, top) ==
    Selected(BreakTie(histogram, evs, TiedCandidates(cands, top.score), top),
             top)

\* detect_best_scale after the candidates are scored.
SelectCandidate(histogram, evs, cands) ==
    SelectFrom(histogram, evs, cands, TopCandidate(cands))

RECURSIVE AllCandidates(_, _, _)
\* The loops "for scale_id in candidate_scales: for root in range(12)".
AllCandidates(histogram, scales, i) ==
    IF i > Len(scales) THEN <<>>
    ELSE ScaleCandidates(histogram, scales[i])
             \o AllCandidates(histogram, scales, i + 1)

DetectFrom(histogram, evs, scales) ==
    SelectCandidate(histogram, evs, AllCandidates(histogram, scales, 1))

\* detect_best_scale(events, candidate_scales)
detect_best_scale(evs, scales) ==
    DetectFrom(build_pitch_class_histogram(evs), evs, scales)

AllScales == <<1, 2, 3, 4, 5, 6, 7, 8, 9>>

KeyStart(evs, scales, at) ==
    /\ kd_events = evs
    /\ candidate_scales = scales
    /\ kd_histogram = <<>>
    /\ best_candidates = <<>>
    /\ kd_result = [root |-> None, scale_id |-> None, score |-> Zero]
    /\ kd_pc = at

\* "Build pitch class histogram"
BuildHistogram ==
    /\ kd_pc = "input"
    /\ kd_histogram' = build_pitch_class_histogram(kd_events)
    /\ kd_pc' = "scales"
    /\ UNCHANGED <<kd_events, candidate_scales, best_candidates, kd_result>>
    /\ UNCHANGED otherThanKey

\* One iteration of "for scale_id in candidate_scales".
ScoreScale ==
    /\ kd_pc = "scales"
    /\ Len(best_candidates) < 12 * Len(candidate_scales)
    /\ best_candidates' =
           best_candidates
               \o ScaleCandidates(
                      kd_histogram,
                      candidate_scales[(Len(best_candidates) \div 12) + 1])
    /\ UNCHANGED <<kd_events, candidate_scales, kd_histogram, kd_result,
                   kd_pc>>
    /\ UNCHANGED otherThanKey

\* The sort, the tie-breaking and the return of detect_best_scale.
SelectBestScale ==
    /\ kd_pc = "scales"
    /\ Len(best_candidates) = 12 * Len(candidate_scales)
    /\ kd_result' =
           SelectCandidate(kd_histogram, kd_events, best_candidates)
    /\ kd_pc' = "done"
    /\ UNCHANGED <<kd_events, candidate_scales, kd_histogram,
                   best_candidates>>
    /\ UNCHANGED otherThanKey

NextKey == BuildHistogram \/ ScoreScale \/ SelectBestScale

\* Melodies of notes of one duration and velocity, and the degenerate
\* lists.
HalfSecond == Literal(1, 2)
Melody(pitches, delta_sec, velocity) ==
    ListOf([i \in 1..Len(pitches) |->
               KeyEvent(pitches[i], delta_sec, velocity)], Len(pitches))
MaxMelodyNotes == 16
KeyPitchLists ==
    {pitches \in
     {<<60, 62, 64, 65, 67, 69, 71, 72>>,
     <<62, 64, 66, 67, 69, 71, 73, 74>>,
     <<57, 59, 60, 62, 64, 65, 67>>,
     <<60, 62, 62, 62, 64, 65, 67, 69, 71, 72>>,
     <<60, 62, 62, 62, 62, 62, 62, 62, 62, 62, 64, 65, 67, 69, 71, 72>>,
     <<60, 64, 67, 72>>,
     <<60>>,
     <<>>} : Len(pitches) <= MaxMelodyNotes}
KeyVelocities == {80, 0}
KeyDurations == {HalfSecond, Zero}
KeyScaleLists == {AllScales, <<2>>, <<4, 2, 5, 6>>}

\* ------------------------------------------------------------------------
\* Components at rest
\* ------------------------------------------------------------------------

ChordIdle == ChordStart(<<>>, ChordPolicy(max_chord_notes, "reduce"))

MapperIdle ==
    /\ TableStart(2, DefaultOctaveRange, <<>>, 60, "off")
    /\ MapperStart(DefaultOctaveRange, MaxMapCalls)

QuantizerIdle ==
    QuantizerStart(DefaultQuantizeSettings, <<>>, None, 500000,
                   "quantize_events", "off")

\* ------------------------------------------------------------------------
\* The conversion: convert_midi_file, steps 2 to 6
\* ------------------------------------------------------------------------

\* A merged note event: its time in 1/64 s, its duration in delta_sec.
ConvertEvent(note, time_sec, delta_sec, velocity) ==
    [type |-> "note", note |-> note, time_sec |-> time_sec,
     delta_sec |-> delta_sec, velocity |-> velocity]

\* No key detection has run.
NoAnalysis == [root |-> None, scale_id |-> None, score |-> Zero]

\* "Default scale", "Default to scale 2".
default_scale == 2

\* The defaults of convert_midi_file's quantize_subdivision and of
\* midi_data.get('tempo', 500000).
quantize_subdivision == 16
default_tempo_us == 500000

\* octave_range=(3, 6)
cli_octave_range == <<3, 6>>

ConvertStart(evs, override, detect, m, keep, chords, at) ==
    /\ cv_events = evs
    /\ scale_override = override
    /\ detect_key = detect
    /\ cv_mode = m
    /\ cv_keep_offsets = keep
    /\ chord_policy = chords
    /\ last_analysis = NoAnalysis
    /\ cv_scale_id = None
    /\ cv_quantized = <<>>
    /\ cv_processed = <<>>
    /\ cv_table = <<>>
    /\ shawzin_events = <<>>
    /\ cv_pc = at

\* "not scale_override": None and 0 are false.
HasOverride(override) == override # None /\ override # 0

\* Step 2's scale_id: 2 after a key detection, whatever it selected;
\* otherwise "scale_override or 2".
SelectedScale(override, detect, analysis) ==
    IF detect /\ ~HasOverride(override) THEN default_scale
    ELSE IF HasOverride(override) THEN override ELSE default_scale

\* Step 2: key and scale detection.  detect_key_from_events returns the
\* names of the root and scale detect_best_scale selected.
DetectKeyStep ==
    /\ cv_pc = "loaded"
    /\ last_analysis' = IF detect_key /\ ~HasOverride(scale_override)
                        THEN detect_best_scale(cv_events, AllScales)
                        ELSE NoAnalysis
    /\ cv_scale_id' = SelectedScale(scale_override, detect_key,
                                    last_analysis')
    /\ cv_pc' = "key"
    /\ UNCHANGED <<cv_events, scale_override, detect_key, cv_mode,
                   cv_keep_offsets, chord_policy, cv_quantized, cv_processed,
                   cv_table, shawzin_events>>
    /\ UNCHANGED otherThanConvert

\* The times of a list in seconds, and back in 1/64 s: a multiple of 1/64 s
\* is a float, and so is every point of the grid.
InSeconds(evs) ==
    ListOf([i \in 1..Len(evs) |->
               [evs[i] EXCEPT !.time_sec = Literal(evs[i].time_sec, 64)]],
           Len(evs))
In64ths(evs) ==
    ListOf([i \in 1..Len(evs) |->
               [evs[i] EXCEPT !.time_sec =
                    Trunc(FMul(evs[i].time_sec, Float(64)))]], Len(evs))

\* Step 3: quantize_events with QuantizeSettings(subdivision=...) unless
\* keep_offsets is set.
QuantizeStep ==
    /\ cv_pc = "key"
    /\ cv_quantized' =
           IF ~cv_keep_offsets
           THEN LET quantize_settings ==
                        QuantizeSettings(quantize_subdivision, "nearest",
                                         None, TRUE)
                IN  In64ths(quantize_events(
                                InSeconds(cv_events), default_tempo_us,
                                quantize_settings,
                                [i \in 1..Len(cv_events) |-> 0]))
           ELSE cv_events
    /\ cv_pc' = "quantized"
    /\ UNCHANGED <<cv_events, scale_override, detect_key, cv_mode,
                   cv_keep_offsets, chord_policy, last_analysis, cv_scale_id,
                   cv_processed, cv_table, shawzin_events>>
    /\ UNCHANGED otherThanConvert

\* Step 4's chord_settings: ChordPolicy(), on which the option sets the
\* attributes reduce_chords and arpeggiate_chords, which nothing reads.
ChordSettings(chords) == ChordPolicy(max_chord_notes, "reduce")

\* Step 4: process_chord_events on the whole event list.
ProcessChordsStep ==
    /\ cv_pc = "quantized"
    /\ cv_processed' =
           process_chord_events(cv_quantized, ChordSettings(chord_policy))
    /\ cv_pc' = "chords"
    /\ UNCHANGED <<cv_events, scale_override, detect_key, cv_mode,
                   cv_keep_offsets, chord_policy, last_analysis, cv_scale_id,
                   cv_quantized, cv_table, shawzin_events>>
    /\ UNCHANGED otherThanConvert

\* Step 5: build_playable_table and map_events_to_shawzin_events.
MapStep ==
    /\ cv_pc = "chords"
    /\ LET built == build_playable_table(cv_scale_id, cli_octave_range)
           res == map_events_to_shawzin_events(cv_processed, built.table)
       IN  /\ ~built.error
           /\ ~res.error
           /\ cv_table' = built.table
           /\ shawzin_events' = ListOf(res.notes, Len(res.notes))
    /\ cv_pc' = "mapped"
    /\ UNCHANGED <<cv_events, scale_override, detect_key, cv_mode,
                   cv_keep_offsets, chord_policy, last_analysis, cv_scale_id,
                   cv_quantized, cv_processed>>
    /\ UNCHANGED otherThanConvert

\* Step 6 up to the first iteration of the loop of events_to_shawzin_text:
\* called directly in mode melody-only, through ShawzinEncoder.encode_events
\* in mode full (mode='full') and in mode human (mode='melody').  An empty
\* list returns at once.  (stats is the encoder's; mode melody-only has
\* none.)
EncodeStep ==
    /\ cv_pc = "mapped"
    /\ pc = "idle"
    /\ LET encoding_settings ==
               [DefaultSettings EXCEPT !.scale_id = cv_scale_id]
       IN  /\ settings' = encoding_settings
           /\ max_notes' =
                  IF cv_mode = "human"
                  THEN MelodyMaxNotes(encoding_settings.max_notes_per_chunk)
                  ELSE encoding_settings.max_notes_per_chunk
           /\ keep_offsets' =
                  IF cv_mode = "melody-only" THEN cv_keep_offsets
                  ELSE IF cv_mode = "human" THEN TRUE
                  ELSE encoding_settings.keep_offsets
           /\ max_length' = encoding_settings.max_length_per_line
           /\ IF shawzin_events = <<>>
              THEN /\ chunks' =
                          <<create_scale_header(encoding_settings.scale_id)>>
                   /\ current_line' = <<>>
                   /\ pc' = "encoded"
              ELSE /\ chunks' = <<>>
                   /\ current_line' =
                          create_scale_header(shawzin_events[1].scale_id)
                   /\ pc' = "loop"
    /\ events' = shawzin_events
    /\ mode' = IF cv_mode = "full" THEN "full" ELSE "melody"
    /\ stats' = IF shawzin_events = <<>>
                THEN UpdatedStats(shawzin_events, chunks')
                ELSE stats
    /\ current_chunk_lines' = <<>>
    /\ notes_in_chunk' = 0
    /\ last_time' = 0
    /\ pos' = 1
    /\ cv_pc' = "encoding"
    /\ UNCHANGED <<files, content, decoded>>
    /\ UNCHANGED <<cv_events, scale_override, detect_key, cv_mode,
                   cv_keep_offsets, chord_policy, last_analysis, cv_scale_id,
                   cv_quantized, cv_processed, cv_table, shawzin_events>>
    /\ UNCHANGED <<tokenVars, patternVars, chordVars, mapperVars,
                   quantizerVars, mergeVars, keyVars>>

NextConvert ==
    \/ DetectKeyStep
    \/ QuantizeStep
    \/ ProcessChordsStep
    \/ MapStep
    \/ EncodeStep
    \/ LoopBody
    \/ FinishChunks

\* Note lists after the merge, as lists of <<pitch, time in 1/64 s>>: none;
\* one note; a pentatonic melody; four notes of the C major scale one after
\* the other; two pairs of notes 3/64 s apart; a chord of four notes and a
\* note after it.
MaxConvertNotes == 5
ConvertNoteLists ==
    {list \in
     {<<>>,
      <<<<60, 0>>>>,
      <<<<60, 0>>, <<62, 32>>, <<64, 64>>, <<67, 96>>, <<69, 128>>>>,
      <<<<60, 0>>, <<62, 32>>, <<64, 64>>, <<65, 96>>>>,
      <<<<60, 0>>, <<64, 3>>, <<67, 32>>, <<72, 35>>>>,
      <<<<60, 0>>, <<64, 0>>, <<67, 0>>, <<71, 0>>, <<62, 32>>>>} :
         Len(list) <= MaxConvertNotes}

ConvertEvents(list) ==
    ListOf([i \in 1..Len(list) |->
               ConvertEvent(list[i][1], list[i][2], HalfSecond,
                            default_velocity)], Len(list))

ScaleOverrides == {None, 5}
ConvertModes == {"melody-only", "full", "human"}
ChordPolicies == {"reduce", "arpeggiate", "ignore"}

ConvertIdle ==
    ConvertStart(<<>>, None, TRUE, "melody-only", TRUE, "reduce", "off")

MergeIdle == MergeStart(<<>>, "off")

KeyIdle == KeyStart(<<>>, <<>>, "off")

FurtherIdle == MergeIdle /\ KeyIdle /\ ConvertIdle

LaterIdle == ChordIdle /\ MapperIdle /\ QuantizerIdle /\ FurtherIdle

\* ------------------------------------------------------------------------
\* Specifications
\* ------------------------------------------------------------------------

\* Encoding with the default settings, writing, and reading back; and
\* reading files that were not written by the encoder.
Init ==
    /\ \/ \E evs \in NoteLists({"1", "q"}, TimingSamples, 2) :
              CodecStart(DefaultSettings, evs, <<>>)
       \/ \E t \in SampleTexts : CodecStart(DefaultSettings, <<>>, <<t>>)
    /\ TokenStart("1", 0)
    /\ PatternStart(<<>>, 1, 2)
    /\ LaterIdle

Spec == Init /\ [][Next]_vars

\* Encoding under small limits.
InitChunks ==
    /\ \E s \in SmallSettings, id \in {2, 9} :
           \E evs \in NoteLists({"1", "q"}, {0, 8, 16}, id) :
               CodecStart(s, evs, <<>>)
    /\ TokenStart("1", 0)
    /\ PatternStart(<<>>, 1, 2)
    /\ LaterIdle

SpecChunks == InitChunks /\ [][Next]_vars

\* Single tokens over a dense range of delta times.
InitTime ==
    /\ CodecStart(DefaultSettings, <<>>, <<>>)
    /\ \E c \in {"1", "c"}, d \in (0 - MinDelta)..MaxDelta : TokenStart(c, d)
    /\ PatternStart(<<>>, 1, 2)
    /\ LaterIdle

SpecTime == InitTime /\ [][NextTime]_vars

\* Folding and expanding token lists.
InitPatterns ==
    /\ CodecStart(DefaultSettings, <<>>, <<>>)
    /\ TokenStart("1", 0)
    /\ \E toks \in ListsUpTo(TokenSamples, MaxTokens),
          ml \in 1..MaxMinLen, min_occ \in 2..MaxMinOccurrences :
           PatternStart(toks, ml, min_occ)
    /\ LaterIdle

SpecPatterns == InitPatterns /\ [][NextPatterns]_vars

\* Processing the chords of event lists.
InitChords ==
    /\ CodecStart(DefaultSettings, <<>>, <<>>)
    /\ TokenStart("1", 0)
    /\ PatternStart(<<>>, 1, 2)
    /\ \/ \E evs \in EventLists(ChordPitches, ChordTimes, MaxChordEvents),
             max \in 1..MaxChordNotes, m \in {"reduce", "arpeggiate"} :
              ChordStart(evs, ChordPolicy(max, m))
       \/ \E evs \in EventLists(ChainPitches, ChainTimes, MaxChainEvents),
             m \in {"reduce", "arpeggiate"} :
              ChordStart(evs, ChordPolicy(max_chord_notes, m))
    /\ MapperIdle
    /\ QuantizerIdle
    /\ FurtherIdle

SpecChords == InitChords /\ [][NextChords]_vars

\* Building tables and mapping single notes; calls of a ShawzinMapper.
InitMapper ==
    /\ CodecStart(DefaultSettings, <<>>, <<>>)
    /\ TokenStart("1", 0)
    /\ PatternStart(<<>>, 1, 2)
    /\ ChordIdle
    /\ \/ /\ \E sid \in ScaleIds, range \in OctaveRanges,
                note \in BuildPitches :
                 TableStart(sid, range, <<>>, note, "input")
          /\ MapperStart(DefaultOctaveRange, MaxMapCalls)
       \/ /\ \E table \in GivenTables, note \in SourcePitches :
                 TableStart(2, DefaultOctaveRange, table, note, "table")
          /\ MapperStart(DefaultOctaveRange, MaxMapCalls)
       \/ /\ TableStart(2, DefaultOctaveRange, <<>>, 60, "off")
          /\ \E range \in MapperRanges :
                 MapperStart(range, 0)
    /\ QuantizerIdle
    /\ FurtherIdle

SpecMapper == InitMapper /\ [][NextMapper]_vars

\* Quantizing event lists, then quantizing what came out; detecting tempos.
InitQuantizer ==
    /\ CodecStart(DefaultSettings, <<>>, <<>>)
    /\ TokenStart("1", 0)
    /\ PatternStart(<<>>, 1, 2)
    /\ ChordIdle
    /\ MapperIdle
    /\ \E evs \in QuantEventLists :
           \/ \E qs \in QuantSettings, tempo \in QuantTempos :
                  QuantizerStart(qs, evs, None, tempo, "quantize_events",
                                 "input")
           \/ \E qs \in QuantizerSettings, bpm \in QuantBpms :
                  QuantizerStart(qs, evs, bpm, 500000, "Quantizer.quantize",
                                 "input")
           \/ QuantizerStart(DefaultQuantizeSettings, evs, None, 500000,
                             "detect_tempo_from_events", "input")
    /\ FurtherIdle

SpecQuantizer == InitQuantizer /\ [][NextQuantizer]_vars

\* Merging chronological streams of note_on and note_off events.
InitMerge ==
    /\ CodecStart(DefaultSettings, <<>>, <<>>)
    /\ TokenStart("1", 0)
    /\ PatternStart(<<>>, 1, 2)
    /\ ChordIdle
    /\ MapperIdle
    /\ QuantizerIdle
    /\ \E evs \in MergeStreams : MergeStart(evs, "loop")
    /\ KeyIdle
    /\ ConvertIdle

SpecMerge == InitMerge /\ [][NextMerge]_vars

\* Detecting the scale of melodies and of degenerate lists.
InitKey ==
    /\ CodecStart(DefaultSettings, <<>>, <<>>)
    /\ TokenStart("1", 0)
    /\ PatternStart(<<>>, 1, 2)
    /\ ChordIdle
    /\ MapperIdle
    /\ QuantizerIdle
    /\ MergeIdle
    /\ ConvertIdle
    /\ \E pitches \in KeyPitchLists, delta_sec \in KeyDurations,
          velocity \in KeyVelocities, scales \in KeyScaleLists :
           KeyStart(Melody(pitches, delta_sec, velocity), scales, "input")

SpecKey == InitKey /\ [][NextKey]_vars

\* The empty list and lists of one note, handed to the quantizer, to
\* process_all_chords and to detect_best_scale.  A time is given in seconds
\* and in the chord component's sixths of a millisecond.
DegeneratePitchLists == {<<>>, <<60>>, <<61>>}
DegenerateTimes ==
    {[seconds |-> Zero, sixths |-> 0],
     [seconds |-> HalfSecond, sixths |-> 3000]}
DegenerateCalls ==
    {"quantize_events", "Quantizer.quantize", "detect_tempo_from_events"}

InitDegenerate ==
    /\ CodecStart(DefaultSettings, <<>>, <<>>)
    /\ TokenStart("1", 0)
    /\ PatternStart(<<>>, 1, 2)
    /\ MapperIdle
    /\ MergeIdle
    /\ ConvertIdle
    /\ \E pitches \in DegeneratePitchLists, at \in DegenerateTimes :
           /\ \E qs \in {DefaultQuantizeSettings,
                          QuantizeSettings(16, "nearest", 5, TRUE)},
                 bpm \in {None}, via \in DegenerateCalls :
                  QuantizerStart(qs,
                                 ListOf([i \in 1..Len(pitches) |->
                                            Event("note", pitches[i],
                                                  at.seconds, Zero)],
                                        Len(pitches)),
                                 bpm, 500000, via, "input")
           /\ \E m \in {"reduce", "arpeggiate"} :
                  ChordStart(ListOf([i \in 1..Len(pitches) |->
                                        Event("note", pitches[i], at.sixths,
                                              0)], Len(pitches)),
                             ChordPolicy(max_chord_notes, m))
           /\ KeyStart(Melody(pitches, at.seconds, default_velocity),
                       AllScales, "input")

\* The calls are made one after the other: the quantizer's, then
\* process_all_chords, then detect_best_scale.
NextDegenerate ==
    \/ NextQuantizer
    \/ qz_pc \in {"twice", "tempo"} /\ NextChords
    \/ ch_pc = "done" /\ NextKey

SpecDegenerate == InitDegenerate /\ [][NextDegenerate]_vars

\* The conversion of short note lists under every combination of options.
InitConvert ==
    /\ CodecStart(DefaultSettings, <<>>, <<>>)
    /\ TokenStart("1", 0)
    /\ PatternStart(<<>>, 1, 2)
    /\ ChordIdle
    /\ MapperIdle
    /\ QuantizerIdle
    /\ MergeIdle
    /\ KeyIdle
    /\ \E list \in ConvertNoteLists, override \in ScaleOverrides,
          detect \in BOOLEAN, m \in ConvertModes, keep \in BOOLEAN,
          chords \in ChordPolicies :
           ConvertStart(ConvertEvents(list), override, detect, m, keep,
                        chords, "loaded")

SpecConvert == InitConvert /\ [][NextConvert]_vars

\* ------------------------------------------------------------------------
\* Properties
\* ------------------------------------------------------------------------

\* events_to_shawzin_text has returned.
Returned == pc \in {"encoded", "written", "read"}

\* A text with its line breaks removed.
NoNewlines(text) == SelectSeq(text, LAMBDA c : c # "\n")

\* The number of 3-character tokens behind the 1-character header of a chunk.
ChunkNotes(chunk) == (Len(NoNewlines(chunk)) - 1) \div 3

RECURSIVE NotesBefore(_)
\* The number of notes carried by the chunks before the k-th.
NotesBefore(k) ==
    IF k <= 1 THEN 0 ELSE NotesBefore(k - 1) + ChunkNotes(chunks[k - 1])

Base64Set == {base64_chars[i] : i \in 1..Len(base64_chars)}

\* C1: decoding the text the encoder wrote for a note list gives as many
\* notes as the list has, in the same order, the i-th with the i-th note's
\* symbol and a time within one tick of the i-th note's time.  (Stated for
\* the case that the encoder returned a single chunk, written to one file.)
C1_RoundTrip ==
    (pc = "read" /\ Len(chunks) = 1 /\ content = chunks[1]) =>
        /\ ~decoded.error
        /\ Len(decoded.notes) = Len(events)
        /\ \A i \in 1..Len(events) :
               i <= Len(decoded.notes) =>
                   /\ decoded.notes[i][1] = events[i].character
                   /\ Abs(decoded.notes[i][2] - events[i].time_sec)
                          <= seconds_per_tick

\* C2: expanding what fold_repeats_into_refs returned gives back the token
\* list that was folded, for every list, min_len >= 1 and
\* min_occurrences >= 2.
C2_PatternLaw == pd_pc = "expanded" => expanded = tokens

\* C3: every token has length 3, starts with the note's symbol, a member of
\* the symbol alphabet, and ends with two characters of the time alphabet;
\* a negative delta is encoded as zero ("AA").
C3_TokenShape ==
    tk_pc # "input" =>
        /\ Len(tk_token) = 3
        /\ tk_token[1] = tk_char
        /\ tk_token[1] \in NoteChars
        /\ tk_token[2] \in Base64Set
        /\ tk_token[3] \in Base64Set
        /\ tk_delta < 0 => SubSeq(tk_token, 2, 3) = <<"A", "A">>

\* A token for a delta of 4096 ticks: both time characters have wrapped.
C3_Witness ==
    /\ tk_pc = "token"
    /\ tk_delta = 4096 * seconds_per_tick
    /\ tk_token = <<tk_char, "A", "A">>

\* C4: no chunk holds more than max_notes note tokens, and a list of more
\* than max_notes notes gives at least 2 chunks.
C4_ChunkNoteLimit ==
    Returned =>
        /\ \A k \in 1..Len(chunks) : ChunkNotes(chunks[k]) <= max_notes
        /\ Len(events) > max_notes => Len(chunks) >= 2

\* A list longer than the limit was split, its first chunk full.
C4_Witness ==
    /\ Returned
    /\ Len(events) > max_notes
    /\ Len(chunks) >= 2
    /\ ChunkNotes(chunks[1]) = max_notes

\* C5: every chunk begins with a header of one character, the digit 1-9 of
\* the scale id of the notes it carries (of the settings, for an empty
\* list), and once line breaks are removed is that digit followed by whole
\* tokens.
C5_ChunkHeader ==
    Returned =>
        \A k \in 1..Len(chunks) :
            LET flat == NoNewlines(chunks[k])
                first == NotesBefore(k) + 1
            IN  /\ Len(flat) >= 1
                /\ chunks[k][1] = flat[1]
                /\ \E id \in 1..9 : flat[1] = Digits[id + 1]
                /\ (Len(flat) - 1) % 3 = 0
                /\ \A j \in 2..Len(flat) :
                       IF j % 3 = 2 THEN flat[j] \in NoteChars
                       ELSE flat[j] \in Base64Set
                /\ IF events = <<>>
                   THEN flat[1] = Digits[settings.scale_id + 1]
                   ELSE \A i \in first..(first + ChunkNotes(chunks[k]) - 1) :
                            /\ i <= Len(events)
                            /\ flat[1] = Digits[events[i].scale_id + 1]

\* A chunk started after a split carries the header of its notes' scale.
C5_Witness ==
    /\ Returned
    /\ Len(chunks) >= 2
    /\ events[Len(events)].scale_id = 9
    /\ chunks[Len(chunks)][1] = "9"
    /\ ChunkNotes(chunks[Len(chunks)]) >= 1

\* C6, as claimed: for any max_length, no line of any chunk is longer than
\* max_length characters.
C6_LineLimitAnyLength ==
    Returned =>
        \A k \in 1..Len(chunks) :
            \A l \in 1..Len(SplitLines(chunks[k])) :
                Len(SplitLines(chunks[k])[l]) <= max_length

\* C6, amended: for max_length >= 3 (the length of a token), no line of any
\* chunk is longer than max_length characters, and every line after the
\* first of a chunk consists of whole tokens, without a header.
C6_LineLimit ==
    (Returned /\ max_length >= 3) =>
        \A k \in 1..Len(chunks) :
            LET lines == SplitLines(chunks[k])
            IN  \A l \in 1..Len(lines) :
                    /\ Len(lines[l]) <= max_length
                    /\ l > 1 =>
                           /\ lines[l] # <<>>
                           /\ Len(lines[l]) % 3 = 0
                           /\ \A j \in 1..Len(lines[l]) :
                                  j % 3 = 1 => lines[l][j] \in NoteChars

\* A chunk of three lines under a limit of 4: the header with the first
\* token, then one token on each continuation line.
C6_Witness ==
    /\ Returned
    /\ max_length = 4
    /\ \E k \in 1..Len(chunks) :
           /\ Len(SplitLines(chunks[k])) = 3
           /\ Len(SplitLines(chunks[k])[1]) = 4
           /\ Len(SplitLines(chunks[k])[3]) = 3

\* C7: in every mode, encode_events puts no more than
\* settings.max_notes_per_chunk notes in one chunk.
C7_PlatformLimit ==
    Returned =>
        \A k \in 1..Len(chunks) :
            ChunkNotes(chunks[k]) <= settings.max_notes_per_chunk

\* The digits 1-9.
HeaderDigits == {Digits[id + 1] : id \in 1..9}

\* C8, as claimed: a first character that is no digit 1-9 makes
\* read_shawzin_file assume scale id 1 without failing; a digit 1-9 is
\* returned as the scale id.
C8_HeaderTolerance ==
    (pc = "read" /\ Strip(content) # <<>>) =>
        LET c == Strip(content)[1]
        IN  /\ ~decoded.error
            /\ decoded.scale_id = IF c \in HeaderDigits THEN DigitValue(c)
                                  ELSE 1

\* C8, amended: a first character that is no digit makes read_shawzin_file
\* assume scale id 1 without failing and decode the whole content, that
\* character included, as tokens; the digit 0 makes it raise ValueError; a
\* digit 1-9 is returned as the scale id.
C8_HeaderRule ==
    (pc = "read" /\ Strip(content) # <<>>) =>
        LET text == Strip(content)
            c == text[1]
        IN  IF c \in HeaderDigits
            THEN ~decoded.error /\ decoded.scale_id = DigitValue(c)
            ELSE IF IsDigit(c)
            THEN decoded.error
            ELSE /\ ~decoded.error
                 /\ decoded.scale_id = 1
                 /\ Len(decoded.notes) = Len(SelectSeq(text, IsAlnum)) \div 3
                 /\ (IsAlnum(c) /\ decoded.notes # <<>>) =>
                        decoded.notes[1][1] = c

\* A file starting with a note symbol was read as scale 1, that symbol being
\* the first note's.
C8_Witness ==
    /\ pc = "read"
    /\ content # <<>>
    /\ content[1] = "q"
    /\ ~decoded.error
    /\ decoded.scale_id = 1
    /\ decoded.notes # <<>>
    /\ decoded.notes[1][1] = "q"

RECURSIVE C9_Pairs(_, _, _)
\* The pairs C9 describes for the characters rest, from the k-th token on,
\* cur being the sum of the time values of the tokens before it.
C9_Pairs(rest, k, cur) ==
    IF 3 * k > Len(rest) THEN <<>>
    ELSE LET t == cur + shawzin_time_to_seconds(
                          SubSeq(rest, 3 * k - 1, 3 * k)).seconds
         IN  <<(<<rest[3 * k - 2], t>>)>> \o C9_Pairs(rest, k + 1, t)

\* C9: after a header 1-9, the decoder returns one (symbol, time) pair for
\* each 3 characters of the remaining text with its whitespace removed, the
\* k-th time being the sum of the time values of tokens 1..k; times never
\* decrease.
C9_Decoding ==
    (pc = "read" /\ Strip(content) # <<>>
        /\ Strip(content)[1] \in HeaderDigits) =>
        LET rest == SelectSeq(Tail(Strip(content)),
                              LAMBDA c : ~(c \in Whitespace))
        IN  /\ ~decoded.error
            /\ decoded.notes = C9_Pairs(rest, 1, 0)
            /\ \A i \in 2..Len(decoded.notes) :
                   decoded.notes[i - 1][2] <= decoded.notes[i][2]

\* C10: for a delta of n = round(delta / seconds_per_tick) ticks, n in
\* 0..4095, decoding the encoded time gives n * seconds_per_tick, within one
\* tick of delta, and the two time characters are those at n // 64 and
\* n % 64 of the alphabet (each modulo 64).
C10_TimeRoundTrip ==
    LET n == PyRound(tk_delta, seconds_per_tick)
    IN  (tk_pc = "decoded" /\ n \in 0..4095) =>
            /\ ~tk_decoded.error
            /\ tk_decoded.seconds = n * seconds_per_tick
            /\ Abs(tk_decoded.seconds - tk_delta) <= seconds_per_tick
            /\ tk_token[2] = base64_chars[((n \div 64) % 64) + 1]
            /\ tk_token[3] = base64_chars[((n % 64) % 64) + 1]

\* The largest tick count two time characters hold was encoded and decoded.
C10_Witness ==
    /\ tk_pc = "decoded"
    /\ PyRound(tk_delta, seconds_per_tick) = 4095
    /\ tk_token = <<tk_char, "/", "/">>
    /\ tk_decoded.seconds = 4095 * seconds_per_tick

\* The j-th token of the k-th chunk.
ChunkToken(k, j) == SubSeq(NoNewlines(chunks[k]), 3 * j - 1, 3 * j + 1)

\* C11, as claimed: the first token of a chunk started after a split
\* encodes its note's time measured against zero.
C11_OriginZero ==
    (Returned /\ keep_offsets) =>
        \A k \in 2..Len(chunks) :
            LET i == NotesBefore(k) + 1
            IN  ChunkNotes(chunks[k]) >= 1 =>
                    ChunkToken(k, 1) =
                        event_to_shawzin_token(events[i].character,
                                               events[i].time_sec - 0)

\* C11, amended: with keep_offsets on, the first token of a chunk started
\* after a split encodes a zero delta (the time of its note becomes the
\* reference, not zero and not the last time of the chunk before), the
\* first token of the first chunk encodes its note's time against zero, and
\* every later token of a chunk encodes the delta to the note before it in
\* the same chunk.
C11_ChunkOrigin ==
    (Returned /\ keep_offsets) =>
        \A k \in 1..Len(chunks) :
            \A j \in 1..ChunkNotes(chunks[k]) :
                LET i == NotesBefore(k) + j
                    delta == IF j > 1
                             THEN events[i].time_sec - events[i - 1].time_sec
                             ELSE IF k = 1 THEN events[i].time_sec - 0
                             ELSE 0
                IN  /\ i <= Len(events)
                    /\ ChunkToken(k, j) =
                           event_to_shawzin_token(events[i].character, delta)

\* A second chunk opened by a note 2 ticks after the last note of the first
\* chunk: its first token has the time "AA", its second the delta "AC".
C11_Witness ==
    /\ Returned
    /\ keep_offsets
    /\ Len(chunks) = 2
    /\ Len(events) = 4
    /\ events[1].time_sec = 0
    /\ events[2].time_sec = 0
    /\ events[3].time_sec = 8
    /\ events[4].time_sec = 16
    /\ NotesBefore(2) = 2
    /\ SubSeq(ChunkToken(2, 1), 2, 3) = <<"A", "A">>
    /\ SubSeq(ChunkToken(2, 2), 2, 3) = <<"A", "C">>

\* The notes of a list of events, as a set.
NoteSet(evs) == {evs[i].note : i \in 1..Len(evs)}

\* C12: under the 'reduce' policy, the notes kept of every group of
\* simultaneous notes are notes of the group, include the group's lowest
\* and highest pitch, and number at most max_chord_notes.
C12_ChordReduction ==
    (ch_pc # "input" /\ policy.reduction_mode = "reduce") =>
        \A g \in 1..Len(processed_groups) :
            LET group == chord_groups[g]
                kept == processed_groups[g]
                lowest == CHOOSE n \in NoteSet(group) :
                              \A o \in NoteSet(group) : n <= o
                highest == CHOOSE n \in NoteSet(group) :
                               \A o \in NoteSet(group) : n >= o
            IN  Len(group) > 1 =>
                    /\ \A i \in 1..Len(kept) : InSeq(kept[i], group)
                    /\ lowest \in NoteSet(kept)
                    /\ highest \in NoteSet(kept)
                    /\ Len(kept) <= policy.max_chord_notes

\* The pitches of the entries of a table.
TablePitches(table) == {table[i][1] : i \in 1..Len(table)}

\* C13: for a non-empty table, map_note_to_shawzin returns an entry
\* (pitch, symbol) of the table, no entry of the table is strictly closer to
\* the source pitch, and a source pitch that is in the table maps to its own
\* entry.
C13_NearestPitch ==
    (bt_pc = "mapped" /\ playable_table # <<>>) =>
        /\ ~mapped.error
        /\ InSeq(<<mapped.midi, mapped.char>>, playable_table)
        /\ \A j \in 1..Len(playable_table) :
               Abs(playable_table[j][1] - note_midi)
                   >= Abs(mapped.midi - note_midi)
        /\ note_midi \in TablePitches(playable_table) => mapped.midi = note_midi

\* A source pitch between two entries, nearer to the upper one, was mapped
\* to the upper one.
C13_Witness ==
    /\ bt_pc = "mapped"
    /\ playable_table = <<(<<60, "1">>), (<<64, "2">>), (<<67, "x">>)>>
    /\ note_midi = 66
    /\ mapped.midi = 67
    /\ mapped.char = "x"

\* C14: for every scale id 1-9 and every octave range,
\* build_playable_table returns a list that is strictly increasing by pitch
\* (so without duplicate pitches), with every pitch in 0..127 and every
\* symbol in the 12-symbol note alphabet.
C14_TableInvariant ==
    (bt_pc \in {"table", "mapped"} /\ bt_scale_id \in 1..9) =>
        /\ ~bt_error
        /\ \A i \in 1..Len(playable_table) :
               /\ playable_table[i][1] \in 0..127
               /\ playable_table[i][2] \in NoteChars
               /\ i > 1 => playable_table[i - 1][1] < playable_table[i][1]

\* The table of a 36-index scale over the octaves 10 and 11: the pitches
\* 120..127, each once.
C14_Witness ==
    /\ bt_pc = "table"
    /\ bt_scale_id = 9
    /\ bt_octave_range = <<6, 7>>
    /\ Len(playable_table) = 8
    /\ playable_table[1] = <<120, "1">>
    /\ playable_table[8] = <<127, "x">>

\* A call of map_events with an explicit scale id outside 1..9.
UnknownScaleCall ==
    /\ mp_calls' = mp_calls + 1
    /\ mp_scale_id' # None
    /\ ~(mp_scale_id' \in 1..9)

\* A call of build_playable_table with a scale id outside 1..9.
UnknownScaleBuild ==
    /\ bt_pc = "input"
    /\ bt_pc' = "table"
    /\ ~(bt_scale_id \in 1..9)

\* C15, as claimed: build_playable_table and ShawzinMapper.map_events raise
\* for an explicit scale id outside 1..9, for every event list, and leave
\* the table cache unchanged.
C15_UnknownScaleRaises ==
    [][/\ UnknownScaleBuild => bt_error'
       /\ UnknownScaleCall =>
              /\ mp_error'
              /\ playable_tables' = playable_tables]_vars

\* C15, amended: build_playable_table raises for a scale id outside 1..9;
\* map_events with an explicit scale id outside 1..9 raises for a
\* non-empty event list and returns the empty list, without an error, for
\* an empty one; in both cases no note is returned, the table cache is
\* unchanged and holds no table under a scale id outside 1..9.
C15_UnknownScaleRule ==
    [][/\ UnknownScaleBuild => bt_error' /\ playable_table' = <<>>
       /\ UnknownScaleCall =>
              /\ mp_error' = (mp_events' # <<>>)
              /\ shawzin_notes' = <<>>
              /\ playable_tables' = playable_tables
              /\ \A i \in 1..Len(playable_tables') :
                     playable_tables'[i][1] \in 1..9]_vars

\* After a call that cached the table of scale 2, a call with scale id 10
\* raised and left the cache with that one table.
C15_Witness ==
    /\ mp_calls = 2
    /\ mp_scale_id = 10
    /\ mp_events # <<>>
    /\ mp_error
    /\ shawzin_notes = <<>>
    /\ Len(playable_tables) = 1
    /\ playable_tables[1][1] = 2

\* C16, as claimed: with humanization off, quantizing what a quantization
\* returned returns it unchanged, in 'nearest' and in 'floor' mode.
C16_Idempotent ==
    (qz_pc = "twice" /\ qz_settings.humanize_ms <= 0)
        => quantized_events = qz_events

\* The places, in the list of all events in time order, of the first events
\* of the groups.
GroupStarts(groups) ==
    {Len(Flatten(SubSeq(groups, 1, g - 1))) + 1 : g \in 1..Len(groups)}

\* C21, as claimed: group_simultaneous partitions the events, groups and
\* members in time order (the groups one after another are the events
\* sorted by time, no group is empty), and a group starts at an event
\* exactly when the gap between it and the event before it in time order
\* exceeds epsilon.
C21_Grouping ==
    ch_pc = "groups" =>
        LET sorted_events == SortedBy(ch_events, LAMBDA e : e.time_sec)
        IN  /\ Flatten(chord_groups) = sorted_events
            /\ \A g \in 1..Len(chord_groups) : chord_groups[g] # <<>>
            /\ \A k \in 2..Len(sorted_events) :
                   k \in GroupStarts(chord_groups)
                       <=> sorted_events[k].time_sec
                               - sorted_events[k - 1].time_sec
                           > policy.simultaneity_threshold

\* The groups of two or more events that process_chord_events has handed to
\* create_arpeggio_events.
ArpeggiatedGroups ==
    IF policy.reduction_mode = "arpeggiate"
    THEN {g \in 1..Len(processed_groups) : Len(chord_groups[g]) >= 2}
    ELSE {}

\* out holds the events of the chord, none dropped or added, in ascending
\* pitch order, the i-th (0-based) at chord_time + i * spread / (n - 1),
\* each delta after the first being the gap to the note before.
IsArpeggioOf(out, chord_events, chord_time, spread) ==
    LET n == Len(chord_events)
    IN  /\ Len(out) = n
        /\ \A k \in 0..127 :
               Cardinality({i \in 1..n : out[i].note = k})
                   = Cardinality({i \in 1..n : chord_events[i].note = k})
        /\ \A i \in 2..n : out[i - 1].note <= out[i].note
        /\ \A i \in 1..n :
               (n - 1) * out[i].time_sec
                   = (n - 1) * chord_time + (i - 1) * spread
        /\ out[1].time_sec = chord_time
        /\ out[n].time_sec = chord_time + spread
        /\ \A i \in 2..n :
               out[i].delta_sec = out[i].time_sec - out[i - 1].time_sec

\* The first of the lowest notes of a chord.
LowestNote(chord_events) ==
    chord_events[CHOOSE i \in 1..Len(chord_events) :
                     /\ \A j \in 1..Len(chord_events) :
                            chord_events[i].note <= chord_events[j].note
                     /\ \A j \in 1..(i - 1) :
                            chord_events[i].note < chord_events[j].note]

\* C22, as claimed: create_arpeggio_events returns the n >= 2 events of a
\* chord in ascending pitch order, evenly spaced over the spread from the
\* original chord time on, the time of the chord's first event.
C22_ArpeggioFromChordTime ==
    \A g \in ArpeggiatedGroups :
        IsArpeggioOf(processed_groups[g], chord_groups[g],
                     chord_groups[g][1].time_sec, policy.arpeggio_spread_ms)

\* C22, amended: create_arpeggio_events returns the n >= 2 events of a
\* chord in ascending pitch order, evenly spaced over the spread from the
\* time of the chord's lowest note on (the first of them in the chord if
\* several are lowest); the first delta is the first note's new time and
\* each later delta the gap to the arpeggio note before.
C22_Arpeggio ==
    \A g \in ArpeggiatedGroups :
        /\ IsArpeggioOf(processed_groups[g], chord_groups[g],
                        LowestNote(chord_groups[g]).time_sec,
                        policy.arpeggio_spread_ms)
        /\ processed_groups[g][1].delta_sec = processed_groups[g][1].time_sec

\* A chord of three notes whose lowest note is not its first event and is
\* 5/6 ms later than the first has been arpeggiated.
C22_Witness ==
    \E g \in ArpeggiatedGroups :
        /\ Len(chord_groups[g]) = 3
        /\ chord_groups[g][1].time_sec = 0
        /\ LowestNote(chord_groups[g]).time_sec = 5
        /\ processed_groups[g][3].time_sec = 125

\* C23, as claimed: process_all_chords on a list of zero or one event
\* returns a list equal to the input, every field as it was.
C23_SingletonUnchanged ==
    (ch_pc = "done" /\ Len(ch_events) <= 1) => processed_events = ch_events

\* C24, as claimed: in what find_repeating_sequences returns no token
\* position is covered by two reported occurrences, of the same pattern or
\* of different patterns.
C24_NonOverlapping ==
    pd_pc = "detected" =>
        \A p, q \in 1..Len(patterns) :
            \A a \in 1..Len(patterns[p][1]), b \in 1..Len(patterns[q][1]) :
                (p # q \/ a # b) =>
                    \/ patterns[p][1][a] + patterns[p][2] <= patterns[q][1][b]
                    \/ patterns[q][1][b] + patterns[q][2] <= patterns[p][1][a]

\* C25, as claimed: the octave shift map_note_to_shawzin returns is the
\* integer nearest to (resolved - source) / 12, the one of smaller magnitude
\* when two are equally near: 0 whenever |resolved - source| <= 6, and the
\* negated shift for the negated interval.
C25_OctaveShift ==
    (bt_pc = "mapped" /\ ~mapped.error) =>
        LET d == mapped.midi - note_midi
        IN  /\ mapped.octave_shift
                   = IF d >= 0 THEN (d + 5) \div 12
                     ELSE 0 - ((5 - d) \div 12)
            /\ Abs(d) <= 6 => mapped.octave_shift = 0

\* The 0-based positions at which the window of ml tokens at position i of
\* toks occurs.
WindowPositions(toks, i, ml) ==
    {j \in 0..(Len(toks) - ml) :
        Slice(toks, j, j + ml) = Slice(toks, i, i + ml)}

\* Some window of ml tokens occurs at n pairwise non-overlapping positions.
RepeatsApart(toks, ml, n) ==
    \E i \in 0..(Len(toks) - ml) :
        \E S \in SUBSET WindowPositions(toks, i, ml) :
            /\ Cardinality(S) >= n
            /\ \A j, k \in S : j # k => Abs(j - k) >= ml

\* No window of ml tokens occurs at two positions.
NothingRepeats(toks, ml) ==
    \A i \in 0..(Len(toks) - ml) : WindowPositions(toks, i, ml) = {i}

NoteOns == {i \in 1..Len(mg_events) : mg_events[i].type = "note_on"}

\* The note_off events after event i with its pitch and channel.
NoteOffsAfter(i) ==
    {j \in (i + 1)..Len(mg_events) :
        /\ mg_events[j].type = "note_off"
        /\ mg_events[j].note = mg_events[i].note
        /\ mg_events[j].channel = mg_events[i].channel}

\* The duration the merged note of the note_on at i has: up to the next
\* note_off of its pitch and channel, or the default.
DurationOf(i) ==
    IF NoteOffsAfter(i) = {} THEN default_duration
    ELSE mg_events[CHOOSE j \in NoteOffsAfter(i) :
                       \A k \in NoteOffsAfter(i) : j <= k].time_sec
             - mg_events[i].time_sec

\* C27, as claimed: merge_note_events yields exactly one merged note per
\* note_on, with the note_on's pitch, channel and start time and the
\* duration up to the next note_off of that pitch and channel or the default
\* 0.1 s; nothing else (a note_off without a pending note_on yields
\* nothing); every duration is >= 0 and the result is sorted by start time.
C27_OneNotePerNoteOn ==
    mg_pc = "done" =>
        /\ Len(merged_events) = Cardinality(NoteOns)
        /\ \E at \in [NoteOns -> 1..Len(merged_events)] :
               /\ \A i, j \in NoteOns : i # j => at[i] # at[j]
               /\ \A i \in NoteOns :
                      /\ merged_events[at[i]].note = mg_events[i].note
                      /\ merged_events[at[i]].channel = mg_events[i].channel
                      /\ merged_events[at[i]].time_sec = mg_events[i].time_sec
                      /\ merged_events[at[i]].delta_sec = DurationOf(i)
        /\ \A m \in 1..Len(merged_events) : merged_events[m].delta_sec >= 0
        /\ \A m \in 2..Len(merged_events) :
               merged_events[m - 1].time_sec <= merged_events[m].time_sec

\* The note tokens of a chunk: what follows its header character, line
\* breaks removed.
ChunkTokens(chunk) == Tail(NoNewlines(chunk))

\* What the lines after the first line of a chunk hold.
AfterFirstLine(chunk) ==
    NoNewlines(SubSeq(chunk, Len(SplitLines(chunk)[1]) + 1, Len(chunk)))

\* C28, as claimed: in every chunk events_to_shawzin_text returns, the first
\* chunk as well as the chunks started after a split, the first line is the
\* scale header digit alone, and the note tokens are exactly the content of
\* the lines after the first.
C28_UniformLayout ==
    Returned =>
        \A k \in 1..Len(chunks) :
            /\ Len(SplitLines(chunks[k])[1]) = 1
            /\ \E id \in 1..9 : SplitLines(chunks[k])[1] = <<Digits[id + 1]>>
            /\ AfterFirstLine(chunks[k]) = ChunkTokens(chunks[k])

\* C29: for a list of n >= 1 notes, max_notes >= 1 and max_length >= 4, the
\* returned chunks, headers and line breaks removed, hold exactly n tokens in
\* the order of the notes, the i-th with the i-th note's symbol, in exactly
\* ceil(n / max_notes) chunks, every chunk but the last holding exactly
\* max_notes tokens.
C29_TokenConservation ==
    (Returned /\ Len(events) >= 1 /\ max_notes >= 1 /\ max_length >= 4) =>
        /\ Len(chunks) = (Len(events) + max_notes - 1) \div max_notes
        /\ NotesBefore(Len(chunks) + 1) = Len(events)
        /\ \A k \in 1..Len(chunks) :
               /\ Len(ChunkTokens(chunks[k])) = 3 * ChunkNotes(chunks[k])
               /\ k < Len(chunks) => ChunkNotes(chunks[k]) = max_notes
               /\ \A j \in 1..ChunkNotes(chunks[k]) :
                      /\ NotesBefore(k) + j <= Len(events)
                      /\ ChunkTokens(chunks[k])[3 * j - 2]
                             = events[NotesBefore(k) + j].character

\* Three notes under a limit of two notes per chunk and a line too short for
\* two tokens: the first chunk wraps, the second holds the third note.
C29_Witness ==
    /\ Returned
    /\ Len(events) = 3
    /\ max_notes = 2
    /\ max_length \in 4..6
    /\ Len(chunks) = 2
    /\ Len(SplitLines(chunks[1])) = 2
    /\ ChunkNotes(chunks[2]) = 1

\* The pitches 0..127 of the octaves an octave range covers, ascending, each
\* with the symbol of its pitch class.
CoveredTable(octave_range) ==
    LET low == (base_octave + octave_range[1]) * 12
        high == (base_octave + octave_range[2]) * 12 + 11
        covered == SelectSeq([p \in 1..128 |-> p - 1],
                             LAMBDA p : low <= p /\ p <= high)
    IN  ListOf([i \in 1..Len(covered) |->
                   <<covered[i], scale_symbols[(covered[i] % 12) + 1]>>],
               Len(covered))

\* C30: for each of the scale ids 1..9, build_playable_table returns the
\* same table, the pitches 0..127 of the covered octaves, each once and with
\* the symbol of its pitch class; and a source pitch of the covered octaves
\* is mapped to itself, with its symbol and octave shift 0, under every scale.
C30_ScaleIndependent ==
    /\ [][(bt_pc = "input" /\ bt_pc' = "table" /\ bt_scale_id \in 1..9) =>
              /\ ~bt_error'
              /\ playable_table' = CoveredTable(bt_octave_range)]_vars
    /\ [](\A sid \in 1..9 :
              (/\ bt_pc = "mapped"
               /\ bt_scale_id = sid
               /\ playable_table = CoveredTable(bt_octave_range)
               /\ note_midi \in TablePitches(playable_table)) =>
                  /\ mapped.midi = note_midi
                  /\ mapped.char = scale_symbols[(note_midi % 12) + 1]
                  /\ mapped.octave_shift = 0)

\* Pitch 127, a G and no note of the whole-tone scale, mapped to itself
\* through the table of scale 9 over the octaves 10 and 11.
C30_Witness ==
    /\ bt_pc = "mapped"
    /\ bt_scale_id = 9
    /\ bt_octave_range = <<6, 7>>
    /\ playable_table = CoveredTable(<<6, 7>>)
    /\ note_midi = 127
    /\ mapped.midi = 127
    /\ mapped.char = "x"
    /\ mapped.octave_shift = 0

\* The number of notes of a melody with the pitch class k.
NotesOfClass(evs, k) ==
    Cardinality({i \in 1..Len(evs) : evs[i].note % 12 = k})

\* detect_best_scale has returned for a melody of notes of one positive
\* weight that uses exactly the seven pitch classes of the major scale on
\* the pitch class of its first note, which is also that of its last note;
\* all nine scales were candidates.
MajorMelodyDetected ==
    /\ kd_pc = "done"
    /\ candidate_scales = AllScales
    /\ kd_events # <<>>
    /\ \A i \in 1..Len(kd_events) :
           /\ kd_events[i].delta_sec = kd_events[1].delta_sec
           /\ kd_events[i].velocity = kd_events[1].velocity
    /\ FCmp(kd_events[1].delta_sec, Zero) > 0
    /\ {kd_events[i].note % 12 : i \in 1..Len(kd_events)}
           = get_scale_template(2, kd_events[1].note % 12)
    /\ kd_events[Len(kd_events)].note % 12 = kd_events[1].note % 12

\* The result is the tonic with scale id 2 and a score > 0.8, and it is a
\* candidate within 0.01 of the best score of the largest root emphasis.
TonicMajorReturned ==
    LET tied == TiedCandidates(best_candidates, kd_result.score)
    IN  /\ kd_result.root = kd_events[1].note % 12
        /\ kd_result.scale_id = 2
        /\ FCmp(kd_result.score, Literal(8, 10)) > 0
        /\ Len(tied) <= 4
        /\ \E i \in 1..Len(tied) :
               /\ tied[i].root = kd_result.root
               /\ tied[i].scale_id = kd_result.scale_id
        /\ \A i \in 1..Len(tied) :
               FCmp(RootEmphasis(kd_histogram, kd_events, tied[i].root),
                    RootEmphasis(kd_histogram, kd_events, kd_result.root))
                   <= 0

C18_DegenerateInput ==
    /\ (qz_pc \in {"once", "twice"} /\ qz_events = <<>>) =>
           quantized_events = <<>>
    /\ (qz_pc \in {"once", "twice"}) =>
           Len(quantized_events) = Len(qz_events)
    /\ (qz_pc = "tempo" /\ Len(qz_events) < 2) =>
           estimated_tempo = Float(120)
    /\ ch_pc = "done" =>
           /\ Len(processed_events) = Len(ch_events)
           /\ ch_events = <<>> => processed_events = <<>>
    /\ kd_pc = "done" =>
           /\ kd_result.root \in 0..11
           /\ kd_result.scale_id \in 1..9
           /\ FCmp(kd_result.score, Zero) >= 0

\* All three have returned for a list of one note.
C18_Witness ==
    /\ qz_pc \in {"once", "twice", "tempo"}
    /\ ch_pc = "done"
    /\ kd_pc = "done"
    /\ Len(qz_events) = 1
    /\ Len(ch_events) = 1
    /\ Len(kd_events) = 1
    /\ Len(processed_events) = 1
    /\ kd_result.scale_id = 7

\* The conversion has encoded its text.
Converted == cv_pc = "encoding" /\ pc = "encoded"

\* The scale id the conversion is to use: the override, or the scale id the
\* key detection selected.
WantedScale ==
    IF HasOverride(scale_override) THEN scale_override
    ELSE last_analysis.scale_id

\* C19: when the conversion is run without a scale override and with key
\* detection enabled, the scale id used to build the playable table, stamped
\* on the mapped notes and written as chunk header is the scale id selected
\* by the key detection for the input notes; with an override it is the
\* override.
C19_DetectedScaleUsed ==
    Converted /\ (HasOverride(scale_override) \/ detect_key)
    => /\ cv_scale_id = WantedScale
       /\ cv_table = build_playable_table(WantedScale, cli_octave_range).table
       /\ \A i \in 1..Len(shawzin_events) :
              shawzin_events[i].scale_id = WantedScale
       /\ \A c \in 1..Len(chunks) :
              SubSeq(chunks[c], 1, 1) = create_scale_header(WantedScale)

\* The events of a list at the time of its i-th event: its group of
\* simultaneous notes (times 1/64 s apart are more than 1 ms apart).
GroupAt(evs, i) == SelectSeq(evs, LAMBDA e : e.time_sec = evs[i].time_sec)

\* The events chord processing is handed and the events it returned.
ChordsProcessed == cv_pc \in {"chords", "mapped", "encoding"}

\* C20: the chord policy option is honoured by the conversion: with 'reduce'
\* each group of simultaneous notes is reduced independently to at most
\* max_chord_notes notes, with 'arpeggiate' no note is removed, with 'ignore'
\* the event list reaches the mapper with no note removed and no note
\* re-timed; a note that is simultaneous with no other note is never
\* removed.
C20_ChordPolicyHonoured ==
    ChordsProcessed
    => /\ chord_policy = "reduce"
          => \A i \in 1..Len(cv_quantized) :
                 SelectSeq(cv_processed,
                           LAMBDA e : e.time_sec = cv_quantized[i].time_sec)
                 = process_chord_events(GroupAt(cv_quantized, i),
                                        ChordPolicy(max_chord_notes,
                                                    "reduce"))
       /\ chord_policy = "arpeggiate"
          => Len(cv_processed) = Len(cv_quantized)
       /\ chord_policy = "ignore" => cv_processed = cv_quantized
       /\ \A i \in 1..Len(cv_quantized) :
              Len(GroupAt(cv_quantized, i)) = 1
              => InSeq(cv_quantized[i], cv_processed)

====
